---- MODULE Spec2Model ----
(***************************************************************************)
(* Text normalization, rule rewriting, the fuzzy-matching cascade, the     *)
(* batch orchestrator (logic.py) and the row reprocessor with its rule     *)
(* store (row_backend.py, backend.py), as state machines.                  *)
(*                                                                         *)
(* A text is a sequence of characters; a character is a one-letter string, *)
(* or a name for a character outside ASCII ("e:acute", "COMB").            *)
(* A dict is a sequence of <<key, value>> pairs with distinct keys, in     *)
(* insertion order.                                                        *)
(***************************************************************************)
EXTENDS Integers, Sequences, FiniteSets, TLC

(***************************************************************************)
(* Characters                                                              *)
(***************************************************************************)
LowerSeq == <<"a","b","c","d","e","f","g","h","i","j","k","l","m",
              "n","o","p","q","r","s","t","u","v","w","x","y","z">>
UpperSeq == <<"A","B","C","D","E","F","G","H","I","J","K","L","M",
              "N","O","P","Q","R","S","T","U","V","W","X","Y","Z">>
DigitSeq == <<"0","1","2","3","4","5","6","7","8","9">>

Range(s) == {s[i] : i \in DOMAIN s}

\* e-acute, and the combining mark its NFD form carries
AccentBase(c) == IF c = "e:acute" THEN "e" ELSE c
IsAccented(c) == c = "e:acute"
IsAscii(c) == ~IsAccented(c) /\ c # "COMB"

IsSpace(c) == c \in {" ", "TAB"}
\* \w of a str pattern: letters (accented ones too), digits, underscore
IsWordChar(c) ==
    c \in Range(LowerSeq) \cup Range(UpperSeq) \cup Range(DigitSeq) \cup {"_"}
    \/ IsAccented(c)

IndexOf(c, s) == CHOOSE i \in DOMAIN s : s[i] = c
ToLower(c) == IF c \in Range(UpperSeq) THEN LowerSeq[IndexOf(c, UpperSeq)] ELSE c

\* code-point order of the characters a cleaned text can hold
CharRank(c) ==
    IF c = " " THEN 0
    ELSE IF c \in Range(DigitSeq) THEN IndexOf(c, DigitSeq)
    ELSE IF c \in Range(UpperSeq) THEN 20 + IndexOf(c, UpperSeq)
    ELSE IF c = "_" THEN 50
    ELSE IF c \in Range(LowerSeq) THEN 60 + IndexOf(c, LowerSeq)
    ELSE 100

(***************************************************************************)
(* str methods                                                             *)
(***************************************************************************)
Lower(s) == [i \in DOMAIN s |-> ToLower(s[i])]

RECURSIVE LStrip(_)
LStrip(s) == IF s # <<>> /\ IsSpace(Head(s)) THEN LStrip(Tail(s)) ELSE s

RECURSIVE RStrip(_)
RStrip(s) ==
    IF s # <<>> /\ IsSpace(s[Len(s)]) THEN RStrip(SubSeq(s, 1, Len(s) - 1)) ELSE s

Strip(s) == RStrip(LStrip(s))

\* str.split(): the maximal runs of non-whitespace
RECURSIVE SplitFrom(_, _)
SplitFrom(s, cur) ==
    IF s = <<>> THEN (IF cur = <<>> THEN <<>> ELSE <<cur>>)
    ELSE IF IsSpace(Head(s))
         THEN (IF cur = <<>> THEN <<>> ELSE <<cur>>) \o SplitFrom(Tail(s), <<>>)
         ELSE SplitFrom(Tail(s), Append(cur, Head(s)))
Split(s) == SplitFrom(s, <<>>)

\* " ".join(words)
RECURSIVE Join(_)
Join(ws) ==
    IF ws = <<>> THEN <<>>
    ELSE IF Len(ws) = 1 THEN ws[1]
    ELSE ws[1] \o <<" ">> \o Join(Tail(ws))

RECURSIVE StrLess(_, _)
StrLess(a, b) ==
    IF b = <<>> THEN FALSE
    ELSE IF a = <<>> THEN TRUE
    ELSE IF CharRank(Head(a)) # CharRank(Head(b))
         THEN CharRank(Head(a)) < CharRank(Head(b))
         ELSE StrLess(Tail(a), Tail(b))

\* sorted(set_of_strings)
RECURSIVE SortedSeq(_)
SortedSeq(S) ==
    IF S = {} THEN <<>>
    ELSE LET m == CHOOSE x \in S : \A y \in S \ {x} : StrLess(x, y)
         IN  <<m>> \o SortedSeq(S \ {m})

(***************************************************************************)
(* ulits.py                                                                *)
(***************************************************************************)
\* unicodedata.normalize("NFD", text)
RECURSIVE NFD(_)
NFD(s) ==
    IF s = <<>> THEN <<>>
    ELSE (IF IsAccented(Head(s)) THEN <<AccentBase(Head(s)), "COMB">> ELSE <<Head(s)>>)
         \o NFD(Tail(s))

\* text.encode("ascii", "ignore").decode("utf-8")
AsciiIgnore(s) == SelectSeq(s, IsAscii)

\* re.sub(r"[^\w\s]", " ", text)
PunctToSpace(s) ==
    [i \in DOMAIN s |-> IF IsWordChar(s[i]) \/ IsSpace(s[i]) THEN s[i] ELSE " "]

\* re.sub(r"\s+", " ", text)
RECURSIVE CollapseSpaces(_)
CollapseSpaces(s) ==
    IF s = <<>> THEN <<>>
    ELSE IF IsSpace(Head(s))
         THEN <<" ">> \o CollapseSpaces(LStrip(s))
         ELSE <<Head(s)>> \o CollapseSpaces(Tail(s))

\* the steps in another order: the edges trimmed before the punctuation is replaced
clean_text_strip_first(text) ==
    Lower(CollapseSpaces(PunctToSpace(Strip(AsciiIgnore(NFD(text))))))

clean_text(text) ==
    Lower(Strip(CollapseSpaces(PunctToSpace(AsciiIgnore(NFD(text))))))

\* dict helpers: a dict is a sequence of <<key, value>> with distinct keys
DictKeys(d) == {d[i][1] : i \in DOMAIN d}
DictGet(d, k) == d[CHOOSE i \in DOMAIN d : d[i][1] = k][2]
\* d[k] = v
DictSet(d, k, v) ==
    IF k \in DictKeys(d)
    THEN [i \in DOMAIN d |-> IF d[i][1] = k THEN <<k, v>> ELSE d[i]]
    ELSE Append(d, <<k, v>>)
\* {**a, **b}
RECURSIVE DictMerge(_, _)
DictMerge(a, b) ==
    IF b = <<>> THEN a ELSE DictMerge(DictSet(a, b[1][1], b[1][2]), Tail(b))

\* {k.lower(): v for k, v in synonyms.items()}
RECURSIVE LowerKeys(_, _)
LowerKeys(d, acc) ==
    IF d = <<>> THEN acc
    ELSE LowerKeys(Tail(d), DictSet(acc, Lower(d[1][1]), d[1][2]))

RECURSIVE SynWords(_, _)
SynWords(words, syn) ==
    IF words = <<>> THEN [out |-> <<>>, applied |-> <<>>]
    ELSE LET w    == Head(words)
             rest == SynWords(Tail(words), syn)
         IN  IF Lower(w) \in DictKeys(syn)
             THEN [out     |-> <<DictGet(syn, Lower(w))>> \o rest.out,
                   applied |-> <<<<w, DictGet(syn, Lower(w))>>>> \o rest.applied]
             ELSE [out |-> <<w>> \o rest.out, applied |-> rest.applied]

\* returns [text, applied]: the rewritten text and the (original, replacement) log
apply_synonyms(text, synonyms) ==
    LET r == SynWords(Split(text), LowerKeys(synonyms, <<>>))
    IN  [text |-> Join(r.out), applied |-> r.applied]

\* \b at position pos (between text[pos-1] and text[pos])
Boundary(t, pos) ==
    LET before == pos - 1 \in DOMAIN t /\ IsWordChar(t[pos - 1])
        after  == pos \in DOMAIN t /\ IsWordChar(t[pos])
    IN  before # after

\* r'\b' + re.escape(phrase) + r'\b' matches at position i, ignoring case
MatchAt(t, i, p) ==
    /\ i + Len(p) - 1 <= Len(t)
    /\ \A k \in DOMAIN p : ToLower(t[i + k - 1]) = ToLower(p[k])
    /\ Boundary(t, i)
    /\ Boundary(t, i + Len(p))

\* re.search(pattern, working_text, flags=re.IGNORECASE)
Found(t, p) == \E i \in DOMAIN t : MatchAt(t, i, p)

\* re.sub(pattern, '', working_text, flags=re.IGNORECASE), scanning from i
RECURSIVE SubFrom(_, _, _)
SubFrom(t, i, p) ==
    IF i > Len(t) THEN <<>>
    ELSE IF MatchAt(t, i, p) THEN SubFrom(t, i + Len(p), p)
    ELSE <<t[i]>> \o SubFrom(t, i + 1, p)

\* sorted(blacklist, key=lambda x: -len(x.strip())): stable, longest first
RECURSIVE InsertByLen(_, _)
InsertByLen(sorted, x) ==
    IF sorted = <<>> THEN <<x>>
    ELSE IF Len(Strip(Head(sorted))) >= Len(Strip(x))
         THEN <<Head(sorted)>> \o InsertByLen(Tail(sorted), x)
         ELSE <<x>> \o sorted
\* the phrases kept in the order of the blacklist
SortByLen_unsorted(bl, acc) == bl

RECURSIVE SortByLen(_, _)
SortByLen(bl, acc) ==
    IF bl = <<>> THEN acc ELSE SortByLen(Tail(bl), InsertByLen(acc, Head(bl)))

RECURSIVE RemovePhrases(_, _, _)
RemovePhrases(t, phrases, removed) ==
    IF phrases = <<>> THEN [text |-> t, removed |-> removed]
    ELSE LET p == Strip(Head(phrases))
         IN  IF p # <<>> /\ Found(t, p)
             THEN RemovePhrases(SubFrom(t, 1, p), Tail(phrases), Append(removed, p))
             ELSE RemovePhrases(t, Tail(phrases), removed)

\* returns [text, removed]
remove_blacklist(text, blacklist) ==
    LET r == RemovePhrases(text, SortByLen(blacklist, <<>>), <<>>)
    IN  [text |-> Join(Split(Strip(r.text))), removed |-> r.removed]

\* re.findall(r"\b\w+\b", text): the maximal runs of word characters
RECURSIVE WordRuns(_, _)
WordRuns(s, cur) ==
    IF s = <<>> THEN (IF cur = <<>> THEN <<>> ELSE <<cur>>)
    ELSE IF ~IsWordChar(Head(s))
         THEN (IF cur = <<>> THEN <<>> ELSE <<cur>>) \o WordRuns(Tail(s), <<>>)
         ELSE WordRuns(Tail(s), Append(cur, Head(s)))

\* the set of the words extract_words returns (callers only build set(...) of it)
extract_words(text) ==
    {w \in Range(WordRuns(Lower(text), <<>>)) : Len(w) > 1}

(***************************************************************************)
(* fuzzywuzzy, as far as the callers depend on it.  The three scorers are  *)
(* left open: a raw score is any value of ScoreVals, one per distinct      *)
(* choice string, except where the library fixes the score.                *)
(***************************************************************************)
ScoreVals == {0, 69, 70, 79, 80}

\* utils.full_process: non-word characters to spaces, lower case, strip
full_process(s) ==
    Strip(Lower([i \in DOMAIN s |-> IF IsWordChar(s[i]) THEN s[i] ELSE " "]))

FirstIdx(choices, k) == CHOOSE i \in DOMAIN choices :
    choices[i] = k /\ \A j \in DOMAIN choices : choices[j] = k => i <= j

\* the score of one choice: 0 when either processed string is empty ("all
\* comparisons will have score 0"), 100 for equal strings
ScoreOf(query, choices, raw, i) ==
    LET pq == full_process(query)
        pc == full_process(choices[i])
        r  == raw[FirstIdx(choices, choices[i])]
    IN  IF pq = <<>> \/ pc = <<>> THEN 0
        ELSE IF pq = pc THEN 100
        ELSE r

\* the scores extractOne computes, choice by choice
Scores(query, choices, raw) ==
    [i \in DOMAIN choices |-> ScoreOf(query, choices, raw, i)]

\* an extractOne that keeps the last of the best choices
extractOne_last(query, choices, raw) ==
    IF choices = <<>> THEN [idx |-> 0, score |-> 0]
    ELSE LET sc(i) == ScoreOf(query, choices, raw, i)
             best  == CHOOSE i \in DOMAIN choices :
                        /\ \A j \in DOMAIN choices : sc(j) <= sc(i)
                        /\ \A j \in DOMAIN choices : sc(j) = sc(i) => j <= i
         IN  [idx |-> best, score |-> sc(best)]

\* process.extractOne(query, choices, scorer=...): the first choice of maximal
\* score, as [idx, score]; idx = 0 is None (no choices)
extractOne(query, choices, raw) ==
    IF choices = <<>> THEN [idx |-> 0, score |-> 0]
    ELSE LET sc(i) == ScoreOf(query, choices, raw, i)
             best  == CHOOSE i \in DOMAIN choices :
                        /\ \A j \in DOMAIN choices : sc(j) <= sc(i)
                        /\ \A j \in DOMAIN choices : sc(j) = sc(i) => i <= j
         IN  [idx |-> best, score |-> sc(best)]

RawTables(n) == [1..n -> ScoreVals]

(***************************************************************************)
(* logic.py: intelligent_fuzzy_match                                       *)
(***************************************************************************)
ThresholdB == 70
ThresholdC == 80

EmptyText == <<>>

\* the result of the except branch
BatchEmptyResult ==
    [match |-> EmptyText, similarity |-> 0, matched |-> EmptyText,
     missing |-> EmptyText, catalog_id |-> EmptyText, categoria |-> EmptyText,
     variedad |-> EmptyText, color |-> EmptyText, grado |-> EmptyText]

\* df2_work of process_files: each catalog row, its search_key appended as the
\* last column
SearchKeyOfRow(row) == clean_text(Strip(Join(SubSeq(row, 1, 4))))
WithSearchKey(df2) == [i \in DOMAIN df2 |-> Append(df2[i], SearchKeyOfRow(df2[i]))]

\* df2["search_key"].tolist()
Choices(df2w) == [i \in DOMAIN df2w |-> df2w[i][Len(df2w[i])]]

\* a first threshold that 70 itself does not pass
BatchNeedsB_incl(score) == score <= ThresholdB
BatchNeedsB(score) == score < ThresholdB
BatchNeedsC(score) == score < ThresholdC
\* if alt_score > score: match, score = alt_match, alt_score
BatchAdopt(cur, alt) == IF alt.score > cur.score THEN alt ELSE cur

\* word overlap and the catalog row of the match
BatchFinish(cleaned_input, df2w, cur) ==
    LET choices     == Choices(df2w)
        match       == choices[cur.idx]
        input_words == extract_words(cleaned_input)
        match_words == extract_words(match)
        row         == df2w[FirstIdx(choices, match)]
    IN  [match      |-> match,
         similarity |-> cur.score,
         matched    |-> Join(SortedSeq(input_words \cap match_words)),
         missing    |-> Join(SortedSeq(input_words \ match_words)),
         catalog_id |-> IF Len(row) > 5 THEN row[6] ELSE EmptyText,
         categoria  |-> row[1],
         variedad   |-> row[2],
         color      |-> row[3],
         grado      |-> row[4]]

\* tabs = [A, B, C]: the raw scores of token_sort_ratio, partial_ratio and
\* token_set_ratio
intelligent_fuzzy_match(cleaned_input, df2w, tabs) ==
    LET choices == Choices(df2w)
        a == extractOne(cleaned_input, choices, tabs.A)
    IN  IF a.idx = 0 THEN BatchEmptyResult
        ELSE LET s1 == IF BatchNeedsB(a.score)
                       THEN BatchAdopt(a, extractOne(cleaned_input, choices, tabs.B))
                       ELSE a
                 s2 == IF BatchNeedsC(s1.score)
                       THEN BatchAdopt(s1, extractOne(cleaned_input, choices, tabs.C))
                       ELSE s1
             IN  BatchFinish(cleaned_input, df2w, s2)

(***************************************************************************)
(* row_backend.py: EnhancedRowProcessor._perform_fuzzy_matching            *)
(***************************************************************************)
RowThresholdB == 70
RowThresholdC == 80

empty_match_result ==
    [best_match |-> EmptyText, similarity |-> 0, matched_words |-> EmptyText,
     missing_words |-> EmptyText, catalog_id |-> EmptyText, categoria |-> EmptyText,
     variedad |-> EmptyText, color |-> EmptyText, grado |-> EmptyText]

\* not cleaned_input.strip() or not catalog_data
RowGuard(cleaned_input, catalog_data) ==
    Strip(cleaned_input) = EmptyText \/ catalog_data = <<>>

\* [item['search_key'] for item in catalog_data if item['search_key']]
RECURSIVE SearchKeys(_)
SearchKeys(catalog_data) ==
    IF catalog_data = <<>> THEN <<>>
    ELSE (IF Head(catalog_data).search_key # EmptyText
          THEN <<Head(catalog_data).search_key>> ELSE <<>>)
         \o SearchKeys(Tail(catalog_data))

RowNeedsB(similarity) == similarity < RowThresholdB
RowNeedsC(similarity) == similarity < RowThresholdC
RowAdopt(cur, alt) == IF alt.score > cur.score THEN alt ELSE cur

RowFinish(cleaned_input, catalog_data, cur) ==
    LET best_match  == SearchKeys(catalog_data)[cur.idx]
        hits        == {i \in DOMAIN catalog_data : catalog_data[i].search_key = best_match}
        input_words == extract_words(cleaned_input)
        match_words == extract_words(best_match)
    IN  IF hits = {} THEN empty_match_result
        ELSE LET matched_item == catalog_data[CHOOSE i \in hits : \A j \in hits : i <= j]
             IN  [best_match    |-> best_match,
                  similarity    |-> cur.score,
                  matched_words |-> Join(SortedSeq(input_words \cap match_words)),
                  missing_words |-> Join(SortedSeq(input_words \ match_words)),
                  catalog_id    |-> matched_item.catalog_id,
                  categoria     |-> matched_item.categoria,
                  variedad      |-> matched_item.variedad,
                  color         |-> matched_item.color,
                  grado         |-> matched_item.grado]

perform_fuzzy_matching(cleaned_input, catalog_data, tabs) ==
    IF RowGuard(cleaned_input, catalog_data) THEN empty_match_result
    ELSE LET search_keys == SearchKeys(catalog_data)
         IN  IF search_keys = <<>> THEN empty_match_result
             ELSE LET a  == extractOne(cleaned_input, search_keys, tabs.A)
                      s1 == IF RowNeedsB(a.score)
                            THEN RowAdopt(a, extractOne(cleaned_input, search_keys, tabs.B))
                            ELSE a
                      s2 == IF RowNeedsC(s1.score)
                            THEN RowAdopt(s1, extractOne(cleaned_input, search_keys, tabs.C))
                            ELSE s1
                  IN  RowFinish(cleaned_input, catalog_data, s2)

(***************************************************************************)
(* Sample texts                                                            *)
(***************************************************************************)
T_ab    == <<"a","b">>
T_cd    == <<"c","d">>
T_xy    == <<"x","y">>
T_ab_cd == <<"a","b"," ","c","d">>
T_blank == <<" ">>
T_id1   == <<"1">>
T_id2   == <<"2">>
T_extra == <<"z","z">>

(***************************************************************************)
(* State                                                                   *)
(***************************************************************************)
VARIABLES
    \* one call of a matching engine
    m_engine,   \* "batch": intelligent_fuzzy_match, "row": _perform_fuzzy_matching
    m_query,    \* cleaned_input
    m_cat,      \* df2 with its search_key column, or catalog_data
    m_pc,       \* "start", "A", "B", "C", "done"
    m_cur,      \* the running (match, score), as [idx, score]
    m_top,      \* what extractOne returned for each scorer evaluated
    m_scores,   \* the score each scorer evaluated gave to each choice
    m_eval,     \* the fallback scorers evaluated
    m_result    \* the returned MatchResult

matchVars == <<m_engine, m_query, m_cat, m_pc, m_cur, m_top, m_scores, m_eval, m_result>>

VARIABLES
    \* the tenant's synonyms_blacklist table, as the RuleSet its rows hold
    store

VARIABLES
    \* one call of process_files
    df1,                    \* the rows handed in, each a sequence of cells
    df2,                    \* the catalog handed in
    dictionary,             \* the caller's rules: [synonyms, blacklist]
    client_id,              \* EmptyText when no tenant is given
    b_pc,                   \* where the call is
    cleaned_inputs_status,  \* "NN" or "PENDING" per row
    merged_synonyms,
    merged_blacklist,
    inputs,                 \* the "Cleaned input" column
    synonyms_applied,       \* the "Applied Synonyms" column
    removed_blacklist,      \* the "Removed Blacklist Words" column
    df2_work,               \* df2 with its search_key column
    cache,                  \* perform_enhanced_matching's cache, a dict
    results,                \* perform_enhanced_matching's result lists, row by row
    b_invoked,              \* the calls of intelligent_fuzzy_match: <<row, cleaned>>
    b_handed,               \* the calls of save_client_processed_data
    b_out,                  \* the returned dataframe, row by row
    client_rules,           \* what get_client_synonyms_blacklist returned
    progress,               \* the calls of progress_callback, in order
    progress_callback       \* whether the caller handed a progress_callback in

batchVars == <<df1, df2, dictionary, client_id, b_pc, cleaned_inputs_status,
               merged_synonyms, merged_blacklist, inputs, synonyms_applied,
               removed_blacklist, df2_work, cache, results, b_invoked, b_handed, b_out,
               client_rules, progress, progress_callback>>

VARIABLES
    \* calls of EnhancedRowProcessor.reprocess_single_row for one tenant
    proc,        \* per caller: where its call is, its locals, what it returned
    lock,        \* the caller whose open transaction holds the table's rows, or 0
    serialized,  \* whether the callers run their calls one at a time
    calls,       \* calls started
    faults,      \* store faults that have happened
    write_failed,\* whether a replace has failed
    expected,    \* the initial rules and every rule a successful replace added
    held,        \* the RuleSets the table has held, one after the other
    done_calls   \* the serialized calls that have returned, in order, each with
                 \* the rules the table held at its return

reprocVars == <<proc, lock, serialized, calls, faults, write_failed, expected, held,
                done_calls>>

VARIABLES
    \* one EnhancedRowProcessor and its tenant's product_catalog table
    product_catalog,  \* the committed rows of the table, in insertion order
    now,              \* datetime.now(), in whole seconds
    ticks,            \* how often the clock has been advanced
    catalog_cache,    \* self._catalog_cache: [set, data], set = FALSE for None
    cache_timestamp,  \* self._cache_timestamp, NoTimestamp for None
    c_last,           \* the last match of a reprocess: its index and how it was got
    staged,           \* the entries save_as_staging_product answered success for
    triggers,         \* whether the table has its search_key triggers
    writes            \* rows inserted and updated by the catalog's owner

catVars == <<product_catalog, now, ticks, catalog_cache, cache_timestamp, c_last, staged,
             triggers, writes>>

VARIABLES
    \* the text functions of ulits.py applied to one text
    t_text,       \* the text handed in
    t_blacklist,  \* the blacklist handed in
    t_pc,         \* "start", "once", "twice", "removed"
    t_once,       \* clean_text(t_text)
    t_twice,      \* clean_text(clean_text(t_text))
    t_removed     \* remove_blacklist(t_text, t_blacklist)

textVars == <<t_text, t_blacklist, t_pc, t_once, t_twice, t_removed>>

vars == <<matchVars, store, batchVars, reprocVars, catVars, textVars>>

(***************************************************************************)
(* One call of a matching engine, scorer by scorer                         *)
(***************************************************************************)
Queries == {EmptyText, T_blank, T_ab, T_ab_cd}

\* catalogs handed to process_files: 4, 5 and 6 columns
Df2Samples ==
    { <<>>,
      << <<T_ab, T_cd, EmptyText, EmptyText>>, <<T_xy, EmptyText, EmptyText, EmptyText>> >>,
      << <<EmptyText, EmptyText, EmptyText, EmptyText>>, <<T_xy, EmptyText, EmptyText, EmptyText>> >>,
      << <<T_ab, T_cd, EmptyText, EmptyText, T_id1>>, <<T_xy, EmptyText, EmptyText, EmptyText, T_id2>> >>,
      << <<T_xy, EmptyText, EmptyText, EmptyText, T_extra, T_id1>>,
         <<T_xy, EmptyText, EmptyText, EmptyText, T_extra, T_id2>> >> }

Item(key, cat, var, id) ==
    [search_key |-> key, categoria |-> cat, variedad |-> var, color |-> EmptyText,
     grado |-> EmptyText, catalog_id |-> id]

\* catalog_data as _get_catalog_data formats it
CatalogDataSamples ==
    { <<>>,
      << Item(EmptyText, EmptyText, EmptyText, T_id1) >>,
      << Item(T_ab_cd, T_ab, T_cd, T_id1), Item(T_xy, T_xy, EmptyText, T_id2) >>,
      << Item(EmptyText, EmptyText, EmptyText, T_id1), Item(T_xy, T_xy, EmptyText, T_id2) >>,
      << Item(T_xy, T_xy, EmptyText, T_id1), Item(T_xy, T_xy, EmptyText, T_id2) >> }

NoTop == [idx |-> 0, score |-> 0]
NoResult == [none |-> TRUE]

MatchIdle ==
    /\ m_engine = "none"
    /\ m_query = EmptyText
    /\ m_cat = <<>>
    /\ m_pc = "idle"
    /\ m_cur = NoTop
    /\ m_top = [A |-> NoTop, B |-> NoTop, C |-> NoTop]
    /\ m_scores = [A |-> <<>>, B |-> <<>>, C |-> <<>>]
    /\ m_eval = {}
    /\ m_result = NoResult

MatchInit ==
    /\ m_engine \in {"batch", "row"}
    /\ m_query \in Queries
    /\ m_cat \in IF m_engine = "batch"
                 THEN {WithSearchKey(d) : d \in Df2Samples}
                 ELSE CatalogDataSamples
    /\ m_pc = "start"
    /\ m_cur = NoTop
    /\ m_top = [A |-> NoTop, B |-> NoTop, C |-> NoTop]
    /\ m_scores = [A |-> <<>>, B |-> <<>>, C |-> <<>>]
    /\ m_eval = {}
    /\ m_result = NoResult

\* the choices the engine hands to extractOne
MChoices == IF m_engine = "batch" THEN Choices(m_cat) ELSE SearchKeys(m_cat)
MNeedsB == IF m_engine = "batch" THEN BatchNeedsB(m_cur.score) ELSE RowNeedsB(m_cur.score)
MNeedsC == IF m_engine = "batch" THEN BatchNeedsC(m_cur.score) ELSE RowNeedsC(m_cur.score)
MAdopt(alt) == IF m_engine = "batch" THEN BatchAdopt(m_cur, alt) ELSE RowAdopt(m_cur, alt)

\* the guards of the row engine, then token_sort_ratio; None from extractOne
\* makes the batch engine's tuple assignment raise, which its except answers
MStageA ==
    /\ m_pc = "start"
    /\ IF m_engine = "row" /\ (RowGuard(m_query, m_cat) \/ SearchKeys(m_cat) = <<>>)
       THEN /\ m_result' = empty_match_result
            /\ m_pc' = "done"
            /\ UNCHANGED <<m_cur, m_top, m_scores>>
       ELSE \E raw \in RawTables(Len(MChoices)) :
              LET a == extractOne(m_query, MChoices, raw)
              IN  IF a.idx = 0
                  THEN /\ m_result' = BatchEmptyResult
                       /\ m_pc' = "done"
                       /\ UNCHANGED <<m_cur, m_top, m_scores>>
                  ELSE /\ m_cur' = a
                       /\ m_top' = [m_top EXCEPT !.A = a]
                       /\ m_scores' = [m_scores EXCEPT
                                         !.A = Scores(m_query, MChoices, raw)]
                       /\ m_pc' = "A"
                       /\ UNCHANGED m_result
    /\ UNCHANGED <<m_engine, m_query, m_cat, m_eval>>
    /\ UNCHANGED <<store, batchVars, reprocVars, catVars, textVars>>

\* partial_ratio, when the score is below the first threshold
MStageB ==
    /\ m_pc = "A"
    /\ MNeedsB
    /\ \E raw \in RawTables(Len(MChoices)) :
         LET b == extractOne(m_query, MChoices, raw)
         IN  /\ m_cur' = MAdopt(b)
             /\ m_top' = [m_top EXCEPT !.B = b]
             /\ m_scores' = [m_scores EXCEPT !.B = Scores(m_query, MChoices, raw)]
    /\ m_eval' = m_eval \cup {"B"}
    /\ m_pc' = "B"
    /\ UNCHANGED <<m_engine, m_query, m_cat, m_result>>
    /\ UNCHANGED <<store, batchVars, reprocVars, catVars, textVars>>

MSkipB ==
    /\ m_pc = "A"
    /\ ~MNeedsB
    /\ m_pc' = "B"
    /\ UNCHANGED <<m_engine, m_query, m_cat, m_cur, m_top, m_scores, m_eval, m_result>>
    /\ UNCHANGED <<store, batchVars, reprocVars, catVars, textVars>>

\* token_set_ratio, when the running score is below the second threshold
MStageC ==
    /\ m_pc = "B"
    /\ MNeedsC
    /\ \E raw \in RawTables(Len(MChoices)) :
         LET c == extractOne(m_query, MChoices, raw)
         IN  /\ m_cur' = MAdopt(c)
             /\ m_top' = [m_top EXCEPT !.C = c]
             /\ m_scores' = [m_scores EXCEPT !.C = Scores(m_query, MChoices, raw)]
    /\ m_eval' = m_eval \cup {"C"}
    /\ m_pc' = "C"
    /\ UNCHANGED <<m_engine, m_query, m_cat, m_result>>
    /\ UNCHANGED <<store, batchVars, reprocVars, catVars, textVars>>

MSkipC ==
    /\ m_pc = "B"
    /\ ~MNeedsC
    /\ m_pc' = "C"
    /\ UNCHANGED <<m_engine, m_query, m_cat, m_cur, m_top, m_scores, m_eval, m_result>>
    /\ UNCHANGED <<store, batchVars, reprocVars, catVars, textVars>>

\* word overlap, catalog attributes, return
MFinish ==
    /\ m_pc = "C"
    /\ m_result' = IF m_engine = "batch"
                   THEN BatchFinish(m_query, m_cat, m_cur)
                   ELSE RowFinish(m_query, m_cat, m_cur)
    /\ m_pc' = "done"
    /\ UNCHANGED <<m_engine, m_query, m_cat, m_cur, m_top, m_scores, m_eval>>
    /\ UNCHANGED <<store, batchVars, reprocVars, catVars, textVars>>

MatchNext == MStageA \/ MStageB \/ MSkipB \/ MStageC \/ MSkipC \/ MFinish

(***************************************************************************)
(* logic.py: process_files and perform_enhanced_matching                   *)
(***************************************************************************)
NN == <<"N","N">>

\* a cell of the "Similarity %" column: <<n>> for a number, <<>> for ""
Cell(n) == <<n>>

\* a key that keeps the letters' case
duplicate_key_cased(row) == Strip(row[1]) \o <<"|">> \o Strip(row[3])

\* df1_work["duplicate_key"]; col_desc is the first column, col_vendor the third
duplicate_key(row) == Lower(Strip(row[1])) \o <<"|">> \o Lower(Strip(row[3]))

\* the loop over the keys with its seen set
MarkDuplicates(rows) ==
    [i \in DOMAIN rows |->
        IF \E j \in 1..(i - 1) : duplicate_key(rows[j]) = duplicate_key(rows[i])
        THEN "NN" ELSE "PENDING"]

\* get_client_synonyms_blacklist for a caller that no writer can interleave:
\* the stored rules, or the empty rules of its except branch
EmptyRules == [synonyms |-> <<>>, blacklist |-> <<>>]
get_client_synonyms_blacklist(st, ok) == IF ok THEN st ELSE EmptyRules

\* list(set(a + b)): the distinct phrases, in an order the set's hashing fixes
ListOfSet(S) == {s \in [1..Cardinality(S) -> S] : Range(s) = S}

\* ", ".join([f"{o}->{n}" for o, n in applied])
RECURSIVE FormatApplied(_)
FormatApplied(applied) ==
    IF applied = <<>> THEN <<>>
    ELSE LET one == applied[1][1] \o <<"->">> \o applied[1][2]
         IN  IF Len(applied) = 1 THEN one
             ELSE one \o <<",", " ">> \o FormatApplied(Tail(applied))

\* the body of the transformation loop for one row
TransformRow(row, status, synonyms, blacklist) ==
    IF status = "NN"
    THEN [input |-> NN, applied |-> EmptyText, removed |-> EmptyText]
    ELSE LET cleaned == clean_text(row[1])
             syn     == apply_synonyms(cleaned, synonyms)
             bl      == remove_blacklist(syn.text, blacklist)
         IN  [input   |-> Strip(bl.text),
              applied |-> FormatApplied(syn.applied),
              removed |-> Join(bl.removed)]

\* what perform_enhanced_matching appends for a duplicate
DuplicateResult ==
    [match |-> NN, similarity |-> EmptyText, matched |-> EmptyText,
     missing |-> EmptyText, catalog_id |-> EmptyText, categoria |-> EmptyText,
     variedad |-> EmptyText, color |-> EmptyText, grado |-> EmptyText]

\* what it appends from a cached engine result
AppliedResult(result) == [result EXCEPT !.similarity = Cell(result.similarity)]

\* a cache that is never consulted
InCache_never(cleaned, c) == FALSE

\* cleaned in cache
InCache(cleaned, c) == cleaned \in DictKeys(c)

\* rows returned in the reverse of the order they came in
OutRow_reversed(i) ==
    [row                     |-> df1[Len(df1) + 1 - i],
     cleaned_input           |-> inputs[i],
     applied_synonyms        |-> synonyms_applied[i],
     removed_blacklist_words |-> removed_blacklist[i],
     best_match              |-> results[i].match,
     similarity              |-> results[i].similarity,
     matched_words           |-> results[i].matched,
     missing_words           |-> results[i].missing,
     catalog_id              |-> results[i].catalog_id,
     categoria               |-> results[i].categoria,
     variedad                |-> results[i].variedad,
     color                   |-> results[i].color,
     grado                   |-> results[i].grado,
     client_id               |-> client_id]

\* one row of the returned dataframe
OutRow(i) ==
    [row                     |-> df1[i],
     cleaned_input           |-> inputs[i],
     applied_synonyms        |-> synonyms_applied[i],
     removed_blacklist_words |-> removed_blacklist[i],
     best_match              |-> results[i].match,
     similarity              |-> results[i].similarity,
     matched_words           |-> results[i].matched,
     missing_words           |-> results[i].missing,
     catalog_id              |-> results[i].catalog_id,
     categoria               |-> results[i].categoria,
     variedad                |-> results[i].variedad,
     color                   |-> results[i].color,
     grado                   |-> results[i].grado,
     client_id               |-> client_id]

\* df1_work[df1_work["Cleaned input"] != "NN"]
NotNN(rows) == SelectSeq(rows, LAMBDA r : r.cleaned_input # NN)

\* update_progress(progress_pct, message): one call of progress_callback when
\* there is one, the percentage kept as the fraction num / den
Emit(p, num, den, message) ==
    IF progress_callback
    THEN Append(p, [num |-> num, den |-> den, message |-> message])
    ELSE p

\* a progress that counts the rows down
EmitMatching_down(p, pos, total) ==
    Emit(p, 10 * total + (total - pos) * 75, total, "Matching records")

\* perform_enhanced_matching's update_progress(i) for the row at position pos
\* (i = pos - 1) of total: 10 + (i / total) * 75
EmitMatching(p, pos, total) == Emit(p, 10 * total + (pos - 1) * 75, total, "Matching records")

\* a save whose failure is not told apart from a success
SaveMessage_silent(outcome) == "Data saved to database"

\* the message of the call at 98 percent, by what the save answered
SaveMessage(outcome) ==
    IF outcome = "saved" THEN "Data saved to database"
    ELSE IF outcome = "failed" THEN "database save failed"
    ELSE "database error"

(***************************************************************************)
(* One call of process_files                                               *)
(***************************************************************************)
MaxRows == 3

T_v  == <<"v">>
T_c1 == <<"c","1">>

\* rows of (description, location, vendor): the second repeats the key of the
\* first, the third cleans to the text of the first under another key, the
\* fourth cleans to the empty string
RowSamples ==
    { <<<<"A","b">>, EmptyText, T_v>>,
      <<<<" ","a","b"," ">>, EmptyText, <<"V"," ">>>>,
      <<<<"a","b","!">>, EmptyText, T_v>>,
      <<<<"!">>, EmptyText, T_v>>,
      <<<<"n","n"," ","c","d">>, EmptyText, T_v>> }

RECURSIVE SeqsUpTo(_, _)
SeqsUpTo(S, n) ==
    IF n = 0 THEN {<<>>}
    ELSE LET shorter == SeqsUpTo(S, n - 1)
         IN  shorter \cup {Append(q, x) : q \in {r \in shorter : Len(r) = n - 1}, x \in S}

\* batches of up to MaxRows rows, and one of rows with two columns
Df1Samples == SeqsUpTo(RowSamples, MaxRows) \cup {<<<<T_ab, T_v>>>>}

\* catalogs: none, three columns, five columns
BatchCatalogs ==
    { <<>>,
      << <<T_ab, T_cd, EmptyText>> >>,
      << <<T_ab, T_cd, EmptyText, EmptyText, T_id1>>,
         <<T_xy, EmptyText, EmptyText, EmptyText, T_id2>> >> }

DictionarySamples ==
    { [synonyms |-> <<>>, blacklist |-> <<>>],
      [synonyms |-> << <<<<"n","n">>, NN>> >>, blacklist |-> <<T_cd>>] }

\* the rules the tenant has stored
StoredRules == [synonyms |-> << <<T_ab, T_xy>> >>, blacklist |-> <<T_extra>>]

\* the scores the three scorers give during one call of the engine
BatchTabs(n) ==
    { [A |-> t, B |-> t, C |-> t] :
        t \in { [i \in 1..n |-> 69], [i \in 1..n |-> IF i = n THEN 80 ELSE 69] } }

BatchIdle ==
    /\ df1 = <<>>
    /\ df2 = <<>>
    /\ dictionary = EmptyRules
    /\ client_id = EmptyText
    /\ b_pc = "idle"
    /\ cleaned_inputs_status = <<>>
    /\ merged_synonyms = <<>>
    /\ merged_blacklist = <<>>
    /\ inputs = <<>>
    /\ synonyms_applied = <<>>
    /\ removed_blacklist = <<>>
    /\ df2_work = <<>>
    /\ cache = <<>>
    /\ results = <<>>
    /\ b_invoked = <<>>
    /\ b_handed = <<>>
    /\ b_out = <<>>
    /\ client_rules = EmptyRules
    /\ progress = <<>>
    /\ progress_callback = FALSE

\* a tenant whose stored synonyms hold one word in two spellings (a row
\* annotation "AB":cd adds the key AB beside the key ab), and callers' rules
\* for that word
CaseStores ==
    { [synonyms |-> << <<T_ab, T_xy>>, <<<<"A","B">>, T_cd>> >>, blacklist |-> <<T_extra>>],
      [synonyms |-> << <<<<"A","B">>, T_cd>> >>, blacklist |-> <<>>] }
CaseOverrides ==
    { [synonyms |-> << <<T_ab, T_extra>> >>, blacklist |-> <<T_extra, T_cd>>],
      [synonyms |-> << <<<<"A","b">>, T_extra>> >>, blacklist |-> <<>>] }
CaseRows == { << <<<<"A","b">>, EmptyText, T_v>> >> }

\* the start of a call with its arguments
BatchStart(rows, catalogs, dictionaries, clients) ==
    /\ df1 \in rows
    /\ df2 \in catalogs
    /\ dictionary \in dictionaries
    /\ client_id \in clients
    /\ b_pc = "start"
    /\ cleaned_inputs_status = <<>>
    /\ merged_synonyms = <<>>
    /\ merged_blacklist = <<>>
    /\ inputs = <<>>
    /\ synonyms_applied = <<>>
    /\ removed_blacklist = <<>>
    /\ df2_work = <<>>
    /\ cache = <<>>
    /\ results = <<>>
    /\ b_invoked = <<>>
    /\ b_handed = <<>>
    /\ b_out = <<>>
    /\ client_rules = EmptyRules
    /\ progress = <<>>

BatchInit ==
    \/ /\ BatchStart(Df1Samples, BatchCatalogs, DictionarySamples, {EmptyText, T_c1})
       /\ progress_callback \in BOOLEAN
       /\ store = StoredRules
    \/ /\ BatchStart(CaseRows, BatchCatalogs, CaseOverrides, {T_c1})
       /\ progress_callback = TRUE
       /\ store \in CaseStores

\* a check that lets a batch of no rows, or an empty catalog, through
ValidInput_noempty(d1, d2) ==
    IF d1 = <<>> \/ d2 = <<>> THEN TRUE
    ELSE Len(d1[1]) >= 3 /\ Len(d2[1]) >= 4

\* the three checks that raise ValueError: no rows or no catalog, fewer than
\* three columns, a catalog of fewer than four
ValidInput(d1, d2) ==
    IF d1 = <<>> \/ d2 = <<>> THEN FALSE
    ELSE Len(d1[1]) >= 3 /\ Len(d2[1]) >= 4

\* a ValueError leaves the call
Reject ==
    /\ b_pc = "start"
    /\ ~ValidInput(df1, df2)
    /\ b_pc' = "rejected"
    /\ UNCHANGED <<client_rules, progress>>
    /\ UNCHANGED <<df1, df2, dictionary, client_id, progress_callback, cleaned_inputs_status,
                   merged_synonyms, merged_blacklist, inputs, synonyms_applied,
                   removed_blacklist, df2_work, cache, results, b_invoked, b_handed, b_out>>
    /\ UNCHANGED <<store, matchVars, reprocVars, catVars, textVars>>

\* the duplicate keys and their marking
MarkRows ==
    /\ b_pc = "start"
    /\ ValidInput(df1, df2)
    /\ cleaned_inputs_status' = MarkDuplicates(df1)
    /\ progress' = Emit(Emit(progress, 1, 1, "Initializing"), 3, 1, "unique records")
    /\ b_pc' = "rules"
    /\ UNCHANGED client_rules
    /\ UNCHANGED <<df1, df2, dictionary, client_id, progress_callback,
                   merged_synonyms, merged_blacklist, inputs, synonyms_applied,
                   removed_blacklist, df2_work, cache, results, b_invoked, b_handed, b_out>>
    /\ UNCHANGED <<store, matchVars, reprocVars, catVars, textVars>>

\* the tenant's rules under the caller's, or the caller's alone
ResolveRules ==
    /\ b_pc = "rules"
    /\ IF client_id # EmptyText
       THEN \E ok \in BOOLEAN :
              LET rules == get_client_synonyms_blacklist(store, ok)
              IN  /\ client_rules' = rules
                  /\ merged_synonyms' = DictMerge(rules.synonyms, dictionary.synonyms)
                  /\ merged_blacklist' \in
                        ListOfSet(Range(rules.blacklist \o dictionary.blacklist))
       ELSE /\ merged_synonyms' = dictionary.synonyms
            /\ merged_blacklist' = dictionary.blacklist
            /\ UNCHANGED client_rules
    /\ progress' = Emit(progress, 5, 1, "Applying text transformation")
    /\ b_pc' = "transform"
    /\ UNCHANGED <<df1, df2, dictionary, client_id, progress_callback, cleaned_inputs_status,
                   inputs, synonyms_applied,
                   removed_blacklist, df2_work, cache, results, b_invoked, b_handed, b_out>>
    /\ UNCHANGED <<store, matchVars, reprocVars, catVars, textVars>>

\* the transformation loop and its three columns
Transform ==
    /\ b_pc = "transform"
    /\ LET t(i) == TransformRow(df1[i], cleaned_inputs_status[i],
                                merged_synonyms, merged_blacklist)
       IN  /\ inputs' = [i \in DOMAIN df1 |-> t(i).input]
           /\ synonyms_applied' = [i \in DOMAIN df1 |-> t(i).applied]
           /\ removed_blacklist' = [i \in DOMAIN df1 |-> t(i).removed]
    /\ progress' = Emit(progress, 8, 1, "Preparing catalog")
    /\ b_pc' = "keys"
    /\ UNCHANGED client_rules
    /\ UNCHANGED <<df1, df2, dictionary, client_id, progress_callback, cleaned_inputs_status,
                   merged_synonyms, merged_blacklist,
                   df2_work, cache, results, b_invoked, b_handed, b_out>>
    /\ UNCHANGED <<store, matchVars, reprocVars, catVars, textVars>>

\* the catalog's search_key column
BuildSearchKeys ==
    /\ b_pc = "keys"
    /\ df2_work' = WithSearchKey(df2)
    /\ progress' = Emit(progress, 10, 1, "Beginning fuzzy matching")
    /\ b_pc' = "match"
    /\ UNCHANGED client_rules
    /\ UNCHANGED <<df1, df2, dictionary, client_id, progress_callback, cleaned_inputs_status,
                   merged_synonyms, merged_blacklist, inputs, synonyms_applied,
                   removed_blacklist, cache, results, b_invoked, b_handed, b_out>>
    /\ UNCHANGED <<store, matchVars, reprocVars, catVars, textVars>>

\* perform_enhanced_matching's loop is at row Len(results) + 1
MatchIndex == Len(results) + 1

\* the loop body for a row whose cleaned input is "NN"
MatchDuplicate ==
    /\ b_pc = "match"
    /\ MatchIndex <= Len(inputs)
    /\ inputs[MatchIndex] = NN
    /\ results' = Append(results, DuplicateResult)
    /\ progress' = EmitMatching(progress, MatchIndex, Len(inputs))
    /\ UNCHANGED client_rules
    /\ UNCHANGED <<df1, df2, dictionary, client_id, progress_callback, b_pc, cleaned_inputs_status,
                   merged_synonyms, merged_blacklist, inputs, synonyms_applied,
                   removed_blacklist, df2_work, cache, b_invoked, b_handed, b_out>>
    /\ UNCHANGED <<store, matchVars, reprocVars, catVars, textVars>>

\* the loop body for a cleaned input the cache holds
MatchCached ==
    /\ b_pc = "match"
    /\ MatchIndex <= Len(inputs)
    /\ inputs[MatchIndex] # NN
    /\ InCache(inputs[MatchIndex], cache)
    /\ results' = Append(results, AppliedResult(DictGet(cache, inputs[MatchIndex])))
    /\ progress' = EmitMatching(progress, MatchIndex, Len(inputs))
    /\ UNCHANGED client_rules
    /\ UNCHANGED <<df1, df2, dictionary, client_id, progress_callback, b_pc, cleaned_inputs_status,
                   merged_synonyms, merged_blacklist, inputs, synonyms_applied,
                   removed_blacklist, df2_work, cache, b_invoked, b_handed, b_out>>
    /\ UNCHANGED <<store, matchVars, reprocVars, catVars, textVars>>

\* the loop body for a cleaned input the cache does not hold: the engine runs
MatchEngine ==
    /\ b_pc = "match"
    /\ MatchIndex <= Len(inputs)
    /\ inputs[MatchIndex] # NN
    /\ ~InCache(inputs[MatchIndex], cache)
    /\ \E tabs \in BatchTabs(Len(df2_work)) :
         LET cleaned      == inputs[MatchIndex]
             match_result == intelligent_fuzzy_match(cleaned, df2_work, tabs)
         IN  /\ cache' = DictSet(cache, cleaned, match_result)
             /\ results' = Append(results, AppliedResult(match_result))
             /\ b_invoked' = Append(b_invoked, <<MatchIndex, cleaned>>)
    /\ progress' = EmitMatching(progress, MatchIndex, Len(inputs))
    /\ UNCHANGED client_rules
    /\ UNCHANGED <<df1, df2, dictionary, client_id, progress_callback, b_pc, cleaned_inputs_status,
                   merged_synonyms, merged_blacklist, inputs, synonyms_applied,
                   removed_blacklist, df2_work, b_handed, b_out>>
    /\ UNCHANGED <<store, matchVars, reprocVars, catVars, textVars>>

\* the result columns, the save of the rows that are not "NN" when a tenant is
\* given (whatever the save answers), and the return
Finalize ==
    /\ b_pc = "match"
    /\ MatchIndex > Len(inputs)
    /\ LET out        == [i \in DOMAIN df1 |-> OutRow(i)]
           df_to_save == NotNN(out)
           p90        == Emit(progress, 90, 1, "Finalizing")
       IN  /\ b_out' = out
           /\ IF client_id = EmptyText
              THEN /\ UNCHANGED b_handed
                   /\ progress' = Emit(p90, 100, 1, "completed")
              ELSE IF df_to_save = <<>>
              THEN /\ UNCHANGED b_handed
                   /\ progress' = Emit(Emit(p90, 98, 1, "no valid records to save"),
                                       100, 1, "completed")
              ELSE \E outcome \in {"saved", "failed", "raised"} :
                     /\ b_handed' = Append(b_handed,
                                           [rows |-> df_to_save, outcome |-> outcome])
                     /\ progress' = Emit(Emit(p90, 98, 1, SaveMessage(outcome)),
                                         100, 1, "completed")
    /\ b_pc' = "done"
    /\ UNCHANGED client_rules
    /\ UNCHANGED <<df1, df2, dictionary, client_id, progress_callback, cleaned_inputs_status,
                   merged_synonyms, merged_blacklist, inputs, synonyms_applied,
                   removed_blacklist, df2_work, cache, results, b_invoked>>
    /\ UNCHANGED <<store, matchVars, reprocVars, catVars, textVars>>

BatchNext ==
    \/ Reject \/ MarkRows \/ ResolveRules \/ Transform \/ BuildSearchKeys
    \/ MatchDuplicate \/ MatchCached \/ MatchEngine \/ Finalize

(***************************************************************************)
(* backend.py: update_client_synonyms_blacklist; row_backend.py:           *)
(* _update_synonyms_blacklist_from_row and reprocess_single_row            *)
(***************************************************************************)
T_synonym   == <<"s","y","n","o","n","y","m">>
T_blacklist == <<"b","l","a","c","k","l","i","s","t">>

\* s.strip('"')
RECURSIVE StripQuotes(_)
StripQuotes(s) ==
    IF s # <<>> /\ Head(s) = "\"" THEN StripQuotes(Tail(s))
    ELSE IF s # <<>> /\ s[Len(s)] = "\"" THEN StripQuotes(SubSeq(s, 1, Len(s) - 1))
    ELSE s

\* word.split(':', 1), for a word that holds a colon
FirstColon(word) == CHOOSE i \in DOMAIN word :
    word[i] = ":" /\ \A j \in 1..(i - 1) : word[j] # ":"
SplitColon(word) ==
    <<SubSeq(word, 1, FirstColon(word) - 1), SubSeq(word, FirstColon(word) + 1, Len(word))>>

\* [{k: v} for k, v in synonyms.items()], as the pairs in order
SynonymsList(synonyms) == synonyms

NoRule == <<"none">>

\* _update_synonyms_blacklist_from_row after its read: whether it calls the
\* replace, with which lists, and the rule it adds
UpdatePlan(row_data, current_rules) ==
    LET action == Lower(Strip(row_data.action))
        word   == Strip(row_data.word)
        skip   == [write |-> FALSE, synonyms_list |-> <<>>, blacklist_list |-> <<>>,
                   added |-> NoRule]
    IN  IF action = T_synonym /\ ":" \in Range(word)
        THEN LET parts       == SplitColon(word)
                 original    == StripQuotes(Strip(parts[1]))
                 replacement == StripQuotes(Strip(parts[2]))
             IN  IF original # EmptyText /\ replacement # EmptyText
                 THEN [write          |-> TRUE,
                       synonyms_list  |-> SynonymsList(DictSet(current_rules.synonyms,
                                                               original, replacement)),
                       blacklist_list |-> current_rules.blacklist,
                       added          |-> <<"synonym", original, replacement>>]
                 ELSE skip
        ELSE IF action = T_blacklist
        THEN IF word \notin Range(current_rules.blacklist)
             THEN [write          |-> TRUE,
                   synonyms_list  |-> SynonymsList(current_rules.synonyms),
                   blacklist_list |-> Append(current_rules.blacklist, word),
                   added          |-> <<"blacklist", word>>]
             ELSE skip
        ELSE skip

\* a check that lets every row through
NoAnnotation_never(row_data) == FALSE

\* not action or not word
NoAnnotation(row_data) ==
    Lower(Strip(row_data.action)) = EmptyText \/ Strip(row_data.word) = EmptyText

\* the statements of a replace, in order, after its DELETE
InsertStatements(synonyms_list, blacklist_list) ==
    [i \in DOMAIN synonyms_list |-> <<"synonym", synonyms_list[i][1], synonyms_list[i][2]>>]
    \o [i \in DOMAIN blacklist_list |-> <<"blacklist", blacklist_list[i]>>]

\* a DELETE that finds no row to delete
DeleteRows_none(table) == table

\* DELETE FROM synonyms_blacklist WHERE client_id = %s: the tenant's rows
DeleteRows(table) == EmptyRules

\* one INSERT, as the RuleSet the table's rows then hold
InsertRow(table, stmt) ==
    IF stmt[1] = "synonym"
    THEN [table EXCEPT !.synonyms = DictSet(table.synonyms, stmt[2], stmt[3])]
    ELSE [table EXCEPT !.blacklist = Append(table.blacklist, stmt[2])]

\* statements that show to other connections as they are made
Committed_at_once(table, working) == working

\* what other connections find in the table while a transaction that has made
\* it `working` is open: connection.begin() holds the statements back until
\* the commit
Committed(table, working) == table

\* the row reprocess_single_row returns on success
UpdatedRow(row_data, final_cleaned, applied_synonyms, removed, match_result) ==
    [row_data EXCEPT
        !.cleaned_input           = final_cleaned,
        !.applied_synonyms        = FormatApplied(applied_synonyms),
        !.removed_blacklist_words = Join(removed),
        !.best_match              = match_result.best_match,
        !.similarity_percentage   = Cell(match_result.similarity),
        !.matched_words           = match_result.matched_words,
        !.missing_words           = match_result.missing_words,
        !.catalog_id              = match_result.catalog_id,
        !.categoria               = match_result.categoria,
        !.variedad                = match_result.variedad,
        !.color                   = match_result.color,
        !.grado                   = match_result.grado,
        !.updated_at              = "now"]

\* reprocess_single_row from its empty check on: <<success, row>>
Reprocess(row_data, rules, catalog_data, tabs) ==
    LET original_input == row_data.vendor_product_description
    IN  IF Strip(original_input) = EmptyText THEN <<FALSE, row_data>>
        ELSE LET cleaned_input == clean_text(original_input)
                 syn == apply_synonyms(cleaned_input, rules.synonyms)
                 bl  == remove_blacklist(syn.text, rules.blacklist)
                 match_result == perform_fuzzy_matching(bl.text, catalog_data, tabs)
             IN  <<TRUE, UpdatedRow(row_data, bl.text, syn.applied, bl.removed, match_result)>>

(***************************************************************************)
(* Calls of reprocess_single_row against the rule store                    *)
(***************************************************************************)
Procs == {1, 2}
MaxCalls == 2
MaxFaults == 1

\* a stored row as the caller holds it, with the enrichment of an earlier run
RowData(desc, action, word) ==
    [vendor_product_description |-> desc, action |-> action, word |-> word,
     cleaned_input |-> T_extra, applied_synonyms |-> EmptyText,
     removed_blacklist_words |-> EmptyText, best_match |-> T_extra,
     similarity_percentage |-> Cell(69), matched_words |-> EmptyText,
     missing_words |-> T_extra, catalog_id |-> T_id2, categoria |-> T_extra,
     variedad |-> EmptyText, color |-> EmptyText, grado |-> EmptyText,
     updated_at |-> "before"]

\* the calls made: (row_data, update_synonyms_blacklist)
CallSamples ==
    { <<RowData(T_ab_cd, <<"B","l","a","c","k","l","i","s","t"," ">>, T_cd), TRUE>>,
      <<RowData(T_ab, T_synonym, <<"\"","a","b","\"",":","c","d">>), TRUE>>,
      <<RowData(T_blank, T_blacklist, T_xy), TRUE>>,
      <<RowData(T_ab, EmptyText, EmptyText), TRUE>>,
      <<RowData(T_ab, T_blacklist, T_blank), TRUE>>,
      <<RowData(T_ab_cd, T_blacklist, T_cd), FALSE>> }

\* what _get_catalog_data hands back: the tenant's catalog, or nothing when
\* the read fails and no earlier read is cached
ReprocCatalog ==
    << Item(T_ab_cd, T_ab, T_cd, T_id1), Item(T_xy, T_xy, EmptyText, T_id2) >>
CatalogReads == {ReprocCatalog, <<>>}

\* the scores the three scorers give during the call's match
ReprocTabs(n) == { [A |-> t, B |-> t, C |-> t] : t \in { [i \in 1..n |-> 69] } }

NoRow == [none |-> TRUE]

IdleProc ==
    [pc |-> "idle", row_data |-> NoRow, update_flag |-> FALSE,
     first |-> <<>>, current_rules |-> EmptyRules, rules |-> EmptyRules,
     synonyms_list |-> <<>>, blacklist_list |-> <<>>, added |-> NoRule,
     working |-> EmptyRules, todo |-> <<>>, inserted |-> 0,
     update_result |-> "none", failed |-> {}, returned |-> FALSE,
     success |-> FALSE, row |-> NoRow]

ReprocIdle ==
    /\ proc = [p \in Procs |-> IdleProc]
    /\ lock = 0
    /\ serialized = TRUE
    /\ calls = 0
    /\ faults = 0
    /\ write_failed = FALSE
    /\ expected = EmptyRules
    /\ held = {}
    /\ done_calls = <<>>

ReprocInit ==
    /\ proc = [p \in Procs |-> IdleProc]
    /\ lock = 0
    /\ serialized \in BOOLEAN
    /\ calls = 0
    /\ faults = 0
    /\ write_failed = FALSE
    /\ store = StoredRules
    /\ expected = StoredRules
    /\ held = {StoredRules}
    /\ done_calls = <<>>

\* where a get_client_synonyms_blacklist goes on to after its first SELECT
SecondRead(pc) == IF pc = "update_read" THEN "update_read2" ELSE "rules_read2"

\* reprocess_single_row is called: serialized calls one after the other (by
\* caller 1), unserialized ones once by each caller; with the flag it goes
\* into _update_synonyms_blacklist_from_row, which returns at once without an
\* action and a word
Call(p) ==
    /\ proc[p].pc = "idle"
    /\ calls < MaxCalls
    /\ IF serialized THEN p = 1 ELSE ~proc[p].returned
    /\ \E c \in CallSamples :
         proc' = [proc EXCEPT ![p] =
                    [IdleProc EXCEPT !.row_data = c[1], !.update_flag = c[2],
                        !.pc = IF c[2] /\ ~NoAnnotation(c[1])
                               THEN "update_read" ELSE "rules_read"]]
    /\ calls' = calls + 1
    /\ UNCHANGED <<store, lock, serialized, faults, write_failed, expected>>
    /\ UNCHANGED held
    /\ UNCHANGED done_calls
    /\ UNCHANGED <<matchVars, batchVars, catVars, textVars>>

\* get_client_synonyms_blacklist: the SELECT of the synonyms
ReadSynonyms(p) ==
    /\ proc[p].pc \in {"update_read", "rules_read"}
    /\ proc' = [proc EXCEPT ![p] =
                  [@ EXCEPT !.first = store.synonyms, !.pc = SecondRead(proc[p].pc)]]
    /\ UNCHANGED <<store, lock, serialized, calls, faults, write_failed, expected>>
    /\ UNCHANGED held
    /\ UNCHANGED done_calls
    /\ UNCHANGED <<matchVars, batchVars, catVars, textVars>>

\* get_client_synonyms_blacklist: the SELECT of the blacklist, and the return
ReadBlacklist(p) ==
    /\ proc[p].pc \in {"update_read2", "rules_read2"}
    /\ LET got == [synonyms |-> proc[p].first, blacklist |-> store.blacklist]
       IN  proc' = [proc EXCEPT ![p] =
                      IF proc[p].pc = "update_read2"
                      THEN [@ EXCEPT !.current_rules = got, !.pc = "update_plan"]
                      ELSE [@ EXCEPT !.rules = got, !.pc = "pipeline"]]
    /\ UNCHANGED <<store, lock, serialized, calls, faults, write_failed, expected>>
    /\ UNCHANGED held
    /\ UNCHANGED done_calls
    /\ UNCHANGED <<matchVars, batchVars, catVars, textVars>>

\* get_client_synonyms_blacklist: the connection or a SELECT fails, and the
\* except branch returns the empty rules
ReadFails(p) ==
    /\ proc[p].pc \in {"update_read", "update_read2", "rules_read", "rules_read2"}
    /\ faults < MaxFaults
    /\ proc' = [proc EXCEPT ![p] =
                  IF proc[p].pc \in {"update_read", "update_read2"}
                  THEN [@ EXCEPT !.current_rules = EmptyRules, !.pc = "update_plan",
                                 !.failed = @ \cup {"read"}]
                  ELSE [@ EXCEPT !.rules = EmptyRules, !.pc = "pipeline",
                                 !.failed = @ \cup {"read"}]]
    /\ faults' = faults + 1
    /\ UNCHANGED <<store, lock, serialized, calls, write_failed, expected>>
    /\ UNCHANGED held
    /\ UNCHANGED done_calls
    /\ UNCHANGED <<matchVars, batchVars, catVars, textVars>>

\* _update_synonyms_blacklist_from_row with the rules it read: it calls the
\* replace with the merged lists, or returns
PlanUpdate(p) ==
    /\ proc[p].pc = "update_plan"
    /\ LET plan == UpdatePlan(proc[p].row_data, proc[p].current_rules)
       IN  proc' = [proc EXCEPT ![p] =
                      IF plan.write
                      THEN [@ EXCEPT !.synonyms_list = plan.synonyms_list,
                                     !.blacklist_list = plan.blacklist_list,
                                     !.added = plan.added,
                                     !.pc = "replace"]
                      ELSE [@ EXCEPT !.first = <<>>, !.current_rules = EmptyRules,
                                     !.pc = "rules_read"]]
    /\ UNCHANGED <<store, lock, serialized, calls, faults, write_failed, expected>>
    /\ UNCHANGED held
    /\ UNCHANGED done_calls
    /\ UNCHANGED <<matchVars, batchVars, catVars, textVars>>

\* update_client_synonyms_blacklist: connect, begin, DELETE; the DELETE waits
\* for the rows another open transaction holds
BeginDelete(p) ==
    /\ proc[p].pc = "replace"
    /\ lock = 0
    /\ lock' = p
    /\ LET working == DeleteRows(store)
       IN  /\ proc' = [proc EXCEPT ![p] =
                         [@ EXCEPT !.working = working,
                                   !.todo = InsertStatements(proc[p].synonyms_list,
                                                             proc[p].blacklist_list),
                                   !.pc = "inserts"]]
           /\ store' = Committed(store, working)
    /\ UNCHANGED <<serialized, calls, faults, write_failed, expected>>
    /\ UNCHANGED held
    /\ UNCHANGED done_calls
    /\ UNCHANGED <<matchVars, batchVars, catVars, textVars>>

\* update_client_synonyms_blacklist: the next INSERT
Insert(p) ==
    /\ proc[p].pc = "inserts"
    /\ proc[p].todo # <<>>
    /\ LET working == InsertRow(proc[p].working, Head(proc[p].todo))
       IN  /\ proc' = [proc EXCEPT ![p] =
                         [@ EXCEPT !.working = working, !.todo = Tail(@),
                                   !.inserted = @ + 1]]
           /\ store' = Committed(store, working)
    /\ UNCHANGED <<lock, serialized, calls, faults, write_failed, expected>>
    /\ UNCHANGED held
    /\ UNCHANGED done_calls
    /\ UNCHANGED <<matchVars, batchVars, catVars, textVars>>

\* the rules with one more rule added, as a reader of the claim counts them
AddRule(rs, added) ==
    IF added[1] = "synonym"
    THEN [rs EXCEPT !.synonyms = DictSet(rs.synonyms, added[2], added[3])]
    ELSE IF added[1] = "blacklist" /\ added[2] \notin Range(rs.blacklist)
    THEN [rs EXCEPT !.blacklist = Append(rs.blacklist, added[2])]
    ELSE rs

\* update_client_synonyms_blacklist: commit, and the return of (True, ...)
Commit(p) ==
    /\ proc[p].pc = "inserts"
    /\ proc[p].todo = <<>>
    /\ store' = proc[p].working
    /\ lock' = 0
    /\ proc' = [proc EXCEPT ![p] =
                  [@ EXCEPT !.update_result = "ok", !.first = <<>>,
                            !.current_rules = EmptyRules, !.synonyms_list = <<>>,
                            !.blacklist_list = <<>>, !.working = EmptyRules,
                            !.pc = "rules_read"]]
    /\ expected' = AddRule(expected, proc[p].added)
    /\ UNCHANGED <<serialized, calls, faults, write_failed>>
    /\ held' = held \cup {proc[p].working}
    /\ UNCHANGED done_calls
    /\ UNCHANGED <<matchVars, batchVars, catVars, textVars>>

\* update_client_synonyms_blacklist: the connection or a statement fails; the
\* except branch returns (False, ...), and the open transaction, which nothing
\* commits, ends with its connection
ReplaceFails(p) ==
    /\ proc[p].pc \in {"replace", "inserts"}
    /\ faults < MaxFaults
    /\ faults' = faults + 1
    /\ write_failed' = TRUE
    /\ lock' = IF lock = p THEN 0 ELSE lock
    /\ proc' = [proc EXCEPT ![p] =
                  [@ EXCEPT !.update_result = "failed", !.failed = @ \cup {"write"},
                            !.first = <<>>, !.current_rules = EmptyRules,
                            !.synonyms_list = <<>>, !.blacklist_list = <<>>,
                            !.working = EmptyRules, !.todo = <<>>, !.pc = "rules_read"]]
    /\ UNCHANGED <<store, serialized, calls, expected>>
    /\ UNCHANGED held
    /\ UNCHANGED done_calls
    /\ UNCHANGED <<matchVars, batchVars, catVars, textVars>>

\* reprocess_single_row with the rules it read: the empty check, the rewrite,
\* the match, the return
Pipeline(p) ==
    /\ proc[p].pc = "pipeline"
    /\ \E catalog_data \in CatalogReads :
         \E tabs \in ReprocTabs(Len(SearchKeys(catalog_data))) :
           LET r == Reprocess(proc[p].row_data, proc[p].rules, catalog_data, tabs)
           IN  proc' = [proc EXCEPT ![p] =
                          [@ EXCEPT !.success = r[1], !.row = r[2], !.first = <<>>,
                                    !.returned = TRUE, !.pc = "idle"]]
    /\ UNCHANGED <<store, lock, serialized, calls, faults, write_failed, expected>>
    /\ UNCHANGED held
    /\ done_calls' = IF serialized
                     THEN Append(done_calls,
                                 [row_data |-> proc[p].row_data,
                                  update_flag |-> proc[p].update_flag,
                                  failed |-> proc[p].failed,
                                  rules_after |-> store])
                     ELSE done_calls
    /\ UNCHANGED <<matchVars, batchVars, catVars, textVars>>

ReprocNext ==
    \E p \in Procs :
        \/ Call(p) \/ ReadSynonyms(p) \/ ReadBlacklist(p) \/ ReadFails(p)
        \/ PlanUpdate(p) \/ BeginDelete(p) \/ Insert(p) \/ Commit(p)
        \/ ReplaceFails(p) \/ Pipeline(p)

(***************************************************************************)
(* row_backend.py: the catalog cache of an EnhancedRowProcessor and        *)
(* save_as_staging_product                                                 *)
(***************************************************************************)
cache_ttl == 300
DaySeconds == 86400
MaxTicks == 2

T_sentinel == <<"1","1","1","1","1","1">>

\* (current_time - self._cache_timestamp).seconds: the seconds field of a
\* timedelta, which leaves its days out
TimedeltaSeconds(delta) == delta % DaySeconds

\* a row of product_catalog
CatalogRow(cat, var, col, gr, id, key, at) ==
    [categoria |-> cat, variedad |-> var, color |-> col, grado |-> gr,
     catalog_id |-> id, search_key |-> key, created_at |-> at]

\* search_key = clean_text(f"{categoria} {variedad} {color} {grado}")
StagingSearchKey(cat, var, col, gr) == clean_text(Join(<<cat, var, col, gr>>))

\* the row save_as_staging_product inserts
StagingRow(attrs, at) ==
    CatalogRow(attrs[1], attrs[2], attrs[3], attrs[4], T_sentinel,
               StagingSearchKey(attrs[1], attrs[2], attrs[3], attrs[4]), at)

\* ORDER BY created_at DESC: every order of the rows that has the later rows first
CatalogOrders(table) ==
    {s \in ListOfSet(DOMAIN table) :
        \A i, j \in DOMAIN s : i < j => table[s[i]].created_at >= table[s[j]].created_at}

\* the loop that formats the fetched rows for the matching
FormatCatalogRow(row) ==
    [search_key |-> IF row.search_key # EmptyText THEN row.search_key
                    ELSE clean_text(Strip(Join(<<row.categoria, row.variedad,
                                                 row.color, row.grado>>))),
     categoria  |-> row.categoria,
     variedad   |-> row.variedad,
     color      |-> row.color,
     grado      |-> row.grado,
     catalog_id |-> row.catalog_id]

\* the check of the cache's validity
CacheValid(force_refresh, cached, timestamp, current_time) ==
    /\ ~force_refresh
    /\ cached.set
    /\ timestamp.set
    /\ TimedeltaSeconds(current_time - timestamp.at) < cache_ttl

\* a fallback that forgets the cache
CacheOrEmpty_none(cached) == <<>>

\* self._catalog_cache or []
CacheOrEmpty(cached) == IF cached.set THEN cached.data ELSE <<>>

NoCache == [set |-> FALSE, data |-> <<>>]
NoTimestamp == [set |-> FALSE, at |-> 0]
NoMatchYet == [called |-> FALSE]

\* the tenant's catalog: two rows of one second, the second without a search key
InitialCatalog ==
    << CatalogRow(T_ab, T_cd, EmptyText, EmptyText, T_id1, T_ab_cd, 0),
       CatalogRow(T_xy, EmptyText, EmptyText, EmptyText, T_id2, EmptyText, 0) >>

StagingSamples ==
    { <<T_ab, T_xy, EmptyText, EmptyText>>, <<<<"Z","z">>, EmptyText, EmptyText, T_id1>> }

\* the seconds the clock is advanced by
Elapses == {cache_ttl - 1, cache_ttl, cache_ttl + 1, DaySeconds}

CatalogIdle ==
    /\ product_catalog = <<>>
    /\ now = 0
    /\ ticks = 0
    /\ catalog_cache = NoCache
    /\ cache_timestamp = NoTimestamp
    /\ c_last = NoMatchYet
    /\ staged = {}
    /\ triggers = FALSE
    /\ writes = 0

\* __init__: no cache, no timestamp
CatalogInit ==
    /\ product_catalog = InitialCatalog
    /\ now = 0
    /\ ticks = 0
    /\ catalog_cache = NoCache
    /\ cache_timestamp = NoTimestamp
    /\ c_last = NoMatchYet
    /\ staged = {}
    /\ triggers = FALSE
    /\ writes = 0

Tick ==
    /\ ticks < MaxTicks
    /\ \E d \in Elapses : now' = now + d
    /\ ticks' = ticks + 1
    /\ UNCHANGED <<product_catalog, catalog_cache, cache_timestamp, c_last, staged>>
    /\ UNCHANGED <<triggers, writes>>
    /\ UNCHANGED <<store, matchVars, batchVars, reprocVars, textVars>>

\* what one match of a reprocess leaves behind
MatchRecord(catalog_data, from_cache, rebuilt, tabs) ==
    [called       |-> TRUE,
     elapsed      |-> IF cache_timestamp.set THEN now - cache_timestamp.at ELSE 0,
     from_cache   |-> from_cache,
     rebuilt      |-> rebuilt,
     index        |-> catalog_data,
     staged_before |-> staged,
     result       |-> perform_fuzzy_matching(T_ab, catalog_data, tabs)]

\* reprocess_single_row's match: _get_catalog_data() answers from the cache
MatchFromCache ==
    /\ CacheValid(FALSE, catalog_cache, cache_timestamp, now)
    /\ \E tabs \in ReprocTabs(Len(SearchKeys(catalog_cache.data))) :
         c_last' = MatchRecord(catalog_cache.data, TRUE, FALSE, tabs)
    /\ UNCHANGED <<product_catalog, now, ticks, catalog_cache, cache_timestamp, staged>>
    /\ UNCHANGED <<triggers, writes>>
    /\ UNCHANGED <<store, matchVars, batchVars, reprocVars, textVars>>

\* reprocess_single_row's match: _get_catalog_data() reads the table and
\* keeps what it read
MatchRebuilt ==
    /\ ~CacheValid(FALSE, catalog_cache, cache_timestamp, now)
    /\ \E order \in CatalogOrders(product_catalog) :
         LET catalog_data ==
               [i \in DOMAIN order |-> FormatCatalogRow(product_catalog[order[i]])]
         IN  /\ catalog_cache' = [set |-> TRUE, data |-> catalog_data]
             /\ cache_timestamp' = [set |-> TRUE, at |-> now]
             /\ \E tabs \in ReprocTabs(Len(SearchKeys(catalog_data))) :
                  c_last' = MatchRecord(catalog_data, FALSE, TRUE, tabs)
    /\ UNCHANGED <<product_catalog, now, ticks, staged>>
    /\ UNCHANGED <<triggers, writes>>
    /\ UNCHANGED <<store, matchVars, batchVars, reprocVars, textVars>>

\* reprocess_single_row's match: the read of the table fails, and
\* _get_catalog_data() answers the cache it has, or []
MatchReadFails ==
    /\ ~CacheValid(FALSE, catalog_cache, cache_timestamp, now)
    /\ LET catalog_data == CacheOrEmpty(catalog_cache)
       IN  \E tabs \in ReprocTabs(Len(SearchKeys(catalog_data))) :
             c_last' = MatchRecord(catalog_data, FALSE, FALSE, tabs)
    /\ UNCHANGED <<product_catalog, now, ticks, catalog_cache, cache_timestamp, staged>>
    /\ UNCHANGED <<triggers, writes>>
    /\ UNCHANGED <<store, matchVars, batchVars, reprocVars, textVars>>

\* save_as_staging_product: the INSERT runs on a connection opened without
\* autocommit and closed without a commit, the cache is dropped, the answer
\* is success
SaveAsStaging ==
    /\ \E attrs \in StagingSamples :
         LET row == StagingRow(attrs, now)
         IN  /\ product_catalog' = Committed(product_catalog, Append(product_catalog, row))
             /\ staged' = staged \cup {FormatCatalogRow(row)}
    /\ catalog_cache' = NoCache
    /\ UNCHANGED <<now, ticks, cache_timestamp, c_last>>
    /\ UNCHANGED <<triggers, writes>>
    /\ UNCHANGED <<store, matchVars, batchVars, reprocVars, textVars>>

\* clear_cache
ClearCache ==
    /\ catalog_cache' = NoCache
    /\ cache_timestamp' = NoTimestamp
    /\ UNCHANGED <<product_catalog, now, ticks, c_last, staged>>
    /\ UNCHANGED <<triggers, writes>>
    /\ UNCHANGED <<store, matchVars, batchVars, reprocVars, textVars>>

CatalogNext ==
    \/ Tick \/ MatchFromCache \/ MatchRebuilt \/ MatchReadFails
    \/ SaveAsStaging \/ ClearCache

(***************************************************************************)
(* backend.py, database_initialization.py: the rows of product_catalog and *)
(* the triggers that set their search_key                                  *)
(***************************************************************************)
MaxWrites == 2

T_Ab == <<"A","b">>

\* CONCAT_WS(' ', NEW.categoria, NEW.variedad, NEW.color, NEW.grado)
ConcatWs(row) == Join(<<row.categoria, row.variedad, row.color, row.grado>>)

\* trg_product_catalog_insert, trg_product_catalog_update: BEFORE the row is
\* written, its search_key is set
BeforeWrite(row, installed) ==
    IF installed THEN [row EXCEPT !.search_key = ConcatWs(row)] ELSE row

\* create_test_data: search_key = " ".join(product[:4]).lower()
TestProductRow(product, at) ==
    CatalogRow(product[1], product[2], product[3], product[4], product[5],
               Lower(Join(SubSeq(product, 1, 4))), at)

\* products as create_test_data inserts them: four attributes and the identifier
ProductSamples ==
    { <<T_ab, T_cd, T_xy, T_v, T_id1>>,
      <<T_Ab, T_cd, T_xy, T_v, T_id2>>,
      <<T_ab, T_cd, EmptyText, EmptyText, T_id2>> }

\* the values an attribute is changed to
AttributeSamples == {T_xy, T_Ab}

\* a catalog database without rows, with or without its triggers
IndexInit ==
    /\ product_catalog = <<>>
    /\ now = 0
    /\ ticks = 0
    /\ catalog_cache = NoCache
    /\ cache_timestamp = NoTimestamp
    /\ c_last = NoMatchYet
    /\ staged = {}
    /\ triggers \in BOOLEAN
    /\ writes = 0

\* INSERT INTO product_catalog
InsertProduct ==
    /\ writes < MaxWrites
    /\ \E product \in ProductSamples :
         product_catalog' =
             Append(product_catalog, BeforeWrite(TestProductRow(product, now), triggers))
    /\ writes' = writes + 1
    /\ UNCHANGED <<now, ticks, catalog_cache, cache_timestamp, c_last, staged, triggers>>
    /\ UNCHANGED <<store, matchVars, batchVars, reprocVars, textVars>>

\* UPDATE product_catalog SET categoria = ...: an entry's attribute changes
UpdateAttributes ==
    /\ writes < MaxWrites
    /\ \E i \in DOMAIN product_catalog, v \in AttributeSamples :
         /\ product_catalog[i].categoria # v
         /\ product_catalog' =
               [product_catalog EXCEPT
                  ![i] = BeforeWrite([@ EXCEPT !.categoria = v], triggers)]
    /\ writes' = writes + 1
    /\ UNCHANGED <<now, ticks, catalog_cache, cache_timestamp, c_last, staged, triggers>>
    /\ UNCHANGED <<store, matchVars, batchVars, reprocVars, textVars>>

IndexNext ==
    \/ InsertProduct \/ UpdateAttributes \/ MatchRebuilt \/ MatchFromCache \/ ClearCache

(***************************************************************************)
(* ulits.py: clean_text and remove_blacklist applied to one text           *)
(***************************************************************************)
MaxLen == 3
MaxWords == 4

TextAlphabet == {"A", "b", " ", "!", "e:acute", "_"}
WordSamples == {T_ab, T_cd, T_xy}

\* texts of up to MaxLen characters, and texts of up to MaxWords words
CharTexts == SeqsUpTo(TextAlphabet, MaxLen)
WordTexts == {Join(ws) : ws \in SeqsUpTo(WordSamples, MaxWords)}

BlacklistSamples ==
    { <<>>,
      <<T_cd, T_ab_cd>>,
      <<T_ab_cd, T_cd>>,
      <<T_cd, <<"C","D">>, <<" ","c","d"," ">>>>,
      <<T_blank, T_xy, <<"A","b">>>> }

TextIdle ==
    /\ t_text = EmptyText
    /\ t_blacklist = <<>>
    /\ t_pc = "idle"
    /\ t_once = EmptyText
    /\ t_twice = EmptyText
    /\ t_removed = [text |-> EmptyText, removed |-> <<>>]

TextInit ==
    /\ t_text \in CharTexts \cup WordTexts
    /\ t_blacklist \in BlacklistSamples
    /\ t_pc = "start"
    /\ t_once = EmptyText
    /\ t_twice = EmptyText
    /\ t_removed = [text |-> EmptyText, removed |-> <<>>]

CleanOnce ==
    /\ t_pc = "start"
    /\ t_once' = clean_text(t_text)
    /\ t_pc' = "once"
    /\ UNCHANGED <<t_text, t_blacklist, t_twice, t_removed>>
    /\ UNCHANGED <<store, matchVars, batchVars, reprocVars, catVars>>

CleanTwice ==
    /\ t_pc = "once"
    /\ t_twice' = clean_text(t_once)
    /\ t_pc' = "twice"
    /\ UNCHANGED <<t_text, t_blacklist, t_once, t_removed>>
    /\ UNCHANGED <<store, matchVars, batchVars, reprocVars, catVars>>

RemoveBlacklist ==
    /\ t_pc = "start"
    /\ t_removed' = remove_blacklist(t_text, t_blacklist)
    /\ t_pc' = "removed"
    /\ UNCHANGED <<t_text, t_blacklist, t_once, t_twice>>
    /\ UNCHANGED <<store, matchVars, batchVars, reprocVars, catVars>>

TextNext == CleanOnce \/ CleanTwice \/ RemoveBlacklist

(***************************************************************************)
(* Specifications                                                          *)
(***************************************************************************)
\* one call of a matching engine
MatchSpecInit ==
    MatchInit /\ store = EmptyRules /\ BatchIdle /\ ReprocIdle /\ CatalogIdle /\ TextIdle
SpecMatch == MatchSpecInit /\ [][MatchNext]_vars

\* one call of process_files
Init == BatchInit /\ MatchIdle /\ ReprocIdle /\ CatalogIdle /\ TextIdle
Next == BatchNext
Spec == Init /\ [][Next]_vars

\* calls of reprocess_single_row by two callers of one tenant
ReprocSpecInit == ReprocInit /\ MatchIdle /\ BatchIdle /\ CatalogIdle /\ TextIdle
SpecReproc == ReprocSpecInit /\ [][ReprocNext]_vars

\* matches of one EnhancedRowProcessor, with saves of staging products
CatalogSpecInit ==
    CatalogInit /\ store = EmptyRules /\ MatchIdle /\ BatchIdle /\ ReprocIdle /\ TextIdle
SpecCatalog == CatalogSpecInit /\ [][CatalogNext]_vars

\* the catalog's rows as they are written, and the indexes built from them
IndexSpecInit ==
    IndexInit /\ store = EmptyRules /\ MatchIdle /\ BatchIdle /\ ReprocIdle /\ TextIdle
SpecIndex == IndexSpecInit /\ [][IndexNext]_vars

\* the text functions applied to one text
TextSpecInit ==
    TextInit /\ store = EmptyRules /\ MatchIdle /\ BatchIdle /\ ReprocIdle /\ CatalogIdle
SpecText == TextSpecInit /\ [][TextNext]_vars

\* the result's match and score, whichever engine returned it
MResultMatch == IF m_engine = "batch" THEN m_result.match ELSE m_result.best_match
MEmptyResult == IF m_engine = "batch" THEN BatchEmptyResult ELSE empty_match_result

\* C3: for a non-empty input and at least one choice, the returned match and
\* similarity are those of the cascade: B is evaluated exactly when A's top
\* score is below 70 and replaces it only with a strictly greater score; C is
\* evaluated exactly when the running score is then below 80 and replaces it
\* only with a strictly greater score.
C3_AfterB ==
    IF m_top.A.score < 70 /\ m_top.B.score > m_top.A.score THEN m_top.B ELSE m_top.A
C3_AfterC ==
    IF C3_AfterB.score < 80 /\ m_top.C.score > C3_AfterB.score THEN m_top.C ELSE C3_AfterB
C3_Cascade ==
    (m_pc = "done" /\ Strip(m_query) # EmptyText /\ MChoices # <<>>) =>
        /\ ("B" \in m_eval) = (m_top.A.score < 70)
        /\ ("C" \in m_eval) = (C3_AfterB.score < 80)
        /\ MResultMatch = MChoices[C3_AfterC.idx]
        /\ m_result.similarity = C3_AfterC.score

\* B was tried at 69 and adopted at 70, C was tried and only equalled it
C3_Witness ==
    /\ m_pc = "done"
    /\ Strip(m_query) # EmptyText
    /\ m_top.A.score = 69
    /\ m_top.B.score = 70 /\ m_top.B.idx # m_top.A.idx
    /\ m_top.C.score = 70 /\ m_top.C.idx # m_top.B.idx
    /\ m_eval = {"B", "C"}
    /\ m_result.similarity = 70
    /\ MResultMatch = MChoices[m_top.B.idx]

\* C4: an empty or whitespace-only input, or a catalog with no entries, gives
\* the empty MatchResult, in both engines.
C4_EmptyInputEmptyResult ==
    (m_pc = "done" /\ (Strip(m_query) = EmptyText \/ m_cat = <<>>)) =>
        m_result = MEmptyResult

\* the DuplicateKey of a row of the batch: the stripped, lower-cased
\* description, "|", the stripped, lower-cased vendor
C1_Key(i) == Lower(Strip(df1[i][1])) \o <<"|">> \o Lower(Strip(df1[i][3]))
C1_Repeats(i) == \E j \in 1..(i - 1) : C1_Key(j) = C1_Key(i)

\* C1: every row of a batch whose DuplicateKey equals the key of an earlier row
\* is marked duplicate: its cleaned input and best match are "NN", its other
\* MatchResult and audit fields are empty, and the engine is never invoked for
\* it; the first row with each key is not marked duplicate.
C1_DuplicatesMarked ==
    \A i \in DOMAIN df1 :
        /\ i \in DOMAIN cleaned_inputs_status =>
              (cleaned_inputs_status[i] = "NN") = C1_Repeats(i)
        /\ \A k \in DOMAIN b_invoked : C1_Repeats(i) => b_invoked[k][1] # i
        /\ (b_pc = "done" /\ C1_Repeats(i)) =>
              /\ b_out[i].cleaned_input = NN
              /\ b_out[i].best_match = NN
              /\ b_out[i].applied_synonyms = EmptyText
              /\ b_out[i].removed_blacklist_words = EmptyText
              /\ b_out[i].similarity = EmptyText
              /\ b_out[i].matched_words = EmptyText
              /\ b_out[i].missing_words = EmptyText
              /\ b_out[i].catalog_id = EmptyText
              /\ b_out[i].categoria = EmptyText
              /\ b_out[i].variedad = EmptyText
              /\ b_out[i].color = EmptyText
              /\ b_out[i].grado = EmptyText

\* a batch was returned whose second row repeats the key of the first in other
\* letters and spaces, and whose first row was matched by the engine
C1_Witness ==
    /\ b_pc = "done"
    /\ Len(df1) >= 2
    /\ C1_Key(1) = C1_Key(2)
    /\ df1[1] # df1[2]
    /\ cleaned_inputs_status = <<"PENDING", "NN">> \o SubSeq(cleaned_inputs_status, 3, Len(df1))
    /\ b_out[2].best_match = NN
    /\ b_out[1].best_match # NN
    /\ \E k \in DOMAIN b_invoked : b_invoked[k][1] = 1

\* C2: within one batch the engine is invoked at most once for each distinct
\* rewritten string, and the rows not marked duplicate that rewrite to the same
\* string receive identical MatchResult fields.
C2_CachedOnce ==
    /\ \A k, l \in DOMAIN b_invoked : b_invoked[k][2] = b_invoked[l][2] => k = l
    /\ \A i, j \in DOMAIN results :
          ( /\ cleaned_inputs_status[i] = "PENDING"
            /\ cleaned_inputs_status[j] = "PENDING"
            /\ inputs[i] = inputs[j] ) => results[i] = results[j]

\* two rows of different keys and descriptions rewrote to the same string, which
\* the engine matched once, with a choice among its scores
C2_Witness ==
    /\ b_pc = "done"
    /\ \E i, j \in DOMAIN df1 :
          /\ i < j
          /\ cleaned_inputs_status[i] = "PENDING"
          /\ cleaned_inputs_status[j] = "PENDING"
          /\ df1[i][1] # df1[j][1]
          /\ inputs[i] = inputs[j]
          /\ inputs[i] = T_ab
          /\ Cardinality({k \in DOMAIN b_invoked : b_invoked[k][2] = inputs[i]}) = 1
          /\ b_out[i].best_match = b_out[j].best_match
          /\ b_out[i].similarity = Cell(80)

\* whether a RuleSet holds the rule an annotation adds
HoldsRule(rs, added) ==
    IF added[1] = "synonym"
    THEN added[2] \in DictKeys(rs.synonyms) /\ DictGet(rs.synonyms, added[2]) = added[3]
    ELSE added[1] = "blacklist" => added[2] \in Range(rs.blacklist)

\* the call of caller p has returned
Returned(p) == proc[p].pc = "idle" /\ proc[p].returned

\* C5: calls made one at a time: when a call with the update flag carried a
\* valid annotation and its replace succeeded, the rules its rewrite used, read
\* after that write, hold the rule the annotation added.
C5_RewriteUsesNewRule ==
    \A p \in Procs :
        ( /\ serialized
          /\ Returned(p)
          /\ proc[p].update_flag
          /\ proc[p].update_result = "ok"
          /\ proc[p].success )
        => HoldsRule(proc[p].rules, proc[p].added)

\* whether rs holds every synonym pair and every blacklist phrase of wanted
HoldsAll(rs, wanted) ==
    /\ \A i \in DOMAIN wanted.synonyms :
          HoldsRule(rs, <<"synonym", wanted.synonyms[i][1], wanted.synonyms[i][2]>>)
    /\ \A i \in DOMAIN wanted.blacklist :
          HoldsRule(rs, <<"blacklist", wanted.blacklist[i]>>)

\* C6: calls made one at a time and every replace succeeding: the stored
\* RuleSet holds every initial rule, every blacklist phrase added and, for
\* every synonym original added, its latest replacement.
C6_AdditionsAccumulate ==
    (serialized /\ ~write_failed) => HoldsAll(store, expected)

\* the RuleSet a caller hands to the replace
Handed(p) ==
    [synonyms  |-> DictMerge(<<>>, proc[p].synonyms_list),
     blacklist |-> proc[p].blacklist_list]

\* C7: a replace that commits leaves in the store exactly the lists its caller
\* handed in, whatever was committed since the caller read (last writer wins),
\* and a replace reports failure only in a step where the store failed, never
\* for what another caller wrote.
C7_LastWriterWins ==
    [][\A p \in Procs :
          /\ (proc[p].update_result = "none" /\ proc'[p].update_result = "ok")
                => store' = Handed(p)
          /\ (proc[p].update_result = "none" /\ proc'[p].update_result = "failed")
                => faults' = faults + 1]_vars

\* both unserialized callers added a rule, both replaces reported success, no
\* store fault happened, and the store lacks the rule of one of them
C7_Witness ==
    /\ ~serialized
    /\ faults = 0
    /\ \A p \in Procs : Returned(p) /\ proc[p].update_result = "ok"
    /\ proc[1].added # proc[2].added
    /\ \E p \in Procs : ~HoldsRule(store, proc[p].added)
    /\ \E p \in Procs : HoldsRule(store, proc[p].added)

\* C8: the stored RuleSet changes only in the commit of a replace, and then
\* from the complete previous set to the complete set handed in: no DELETE or
\* INSERT shows on its own, and a replace that fails leaves the set as it was.
C8_AllOrNothing ==
    [][store' # store =>
          \E p \in Procs :
              /\ proc[p].pc = "inserts" /\ proc[p].todo = <<>>
              /\ proc'[p].update_result = "ok"
              /\ store' = Handed(p)]_vars

\* a replace failed after its DELETE and at least one INSERT, and the store
\* holds the previous rules
C8_Witness ==
    \E p \in Procs :
        /\ proc[p].update_result = "failed"
        /\ proc[p].inserted >= 1
        /\ store = StoredRules
        /\ store # EmptyRules

\* the returned row is the given row with its enrichment written anew
Rewritten(p) ==
    /\ proc[p].row.vendor_product_description = proc[p].row_data.vendor_product_description
    /\ proc[p].row.updated_at = "now"

\* C9: a call returns success with the row overwritten, or failure with the
\* row it was given; after any failure of its steps, an empty description
\* included, it returns failure with the row it was given.
C9_SuccessOrUnchanged ==
    \A p \in Procs : Returned(p) =>
        /\ \/ proc[p].success /\ Rewritten(p)
           \/ ~proc[p].success /\ proc[p].row = proc[p].row_data
        /\ ( \/ proc[p].failed # {}
             \/ Strip(proc[p].row_data.vendor_product_description) = EmptyText )
           => (~proc[p].success /\ proc[p].row = proc[p].row_data)

\* C10: when the annotation's replace failed, or a read of the tenant's rules
\* failed, the call returns failure and the row it was given.
C10_RuleStoreFailureReported ==
    \A p \in Procs : Returned(p) =>
        /\ proc[p].update_result = "failed"
              => (~proc[p].success /\ proc[p].row = proc[p].row_data)
        /\ "read" \in proc[p].failed
              => (~proc[p].success /\ proc[p].row = proc[p].row_data)

\* whether the tenant's product_catalog table holds the entry
InCatalogTable(e) ==
    \E i \in DOMAIN product_catalog : FormatCatalogRow(product_catalog[i]) = e

\* C11: once save_as_staging_product has answered success, the entry with the
\* sentinel identifier "111111" and the given attributes is in the tenant's
\* catalog, and every later match of a reprocess that got its index from the
\* cache or from a rebuild uses an index that holds the entry.
C11_StagedEntryIndexed ==
    /\ \A e \in staged : e.catalog_id = T_sentinel /\ InCatalogTable(e)
    /\ (c_last.called /\ (c_last.from_cache \/ c_last.rebuilt))
          => \A e \in c_last.staged_before : e \in Range(c_last.index)

\* C12: a match uses the cached index without a rebuild only while the time
\* since the index was built does not exceed the TTL of 300 seconds, whatever
\* the elapsed time, a day or more included.
C12_StaleIndexRebuilt ==
    (c_last.called /\ c_last.from_cache) => c_last.elapsed <= cache_ttl

\* the positions of the batch's primary rows: the first row of each duplicate key
Primary(i) == \A j \in 1..(i - 1) : duplicate_key(df1[j]) # duplicate_key(df1[i])

\* the returned rows at the primary positions, in order
RECURSIVE PrimaryRowsFrom(_)
PrimaryRowsFrom(i) ==
    IF i > Len(b_out) THEN <<>>
    ELSE (IF Primary(i) THEN <<b_out[i]>> ELSE <<>>) \o PrimaryRowsFrom(i + 1)

\* what the transformation loop computes for row i
Transformed(i) ==
    TransformRow(df1[i], IF Primary(i) THEN "PENDING" ELSE "NN",
                 merged_synonyms, merged_blacklist)

\* C13: process_files returns one output row per input row, in the input's
\* order; row i carries the columns of input row i, the audit fields the
\* rewrite of that row gave and the match fields computed for position i, and
\* a duplicate row stays at its position, with the sentinel.
C13_OneRowPerInput ==
    b_pc = "done" =>
        /\ Len(b_out) = Len(df1)
        /\ \A i \in DOMAIN df1 :
             /\ b_out[i].row = df1[i]
             /\ b_out[i].cleaned_input = Transformed(i).input
             /\ b_out[i].applied_synonyms = Transformed(i).applied
             /\ b_out[i].removed_blacklist_words = Transformed(i).removed
             /\ b_out[i].best_match = results[i].match
             /\ b_out[i].similarity = results[i].similarity
             /\ b_out[i].catalog_id = results[i].catalog_id
             /\ ~Primary(i) => (b_out[i].cleaned_input = NN /\ b_out[i].best_match = NN)

\* a finished batch of three rows whose second row repeats the key of the first
C13_Witness ==
    /\ b_pc = "done"
    /\ Len(df1) = 3
    /\ ~Primary(2)
    /\ Primary(3)
    /\ df1[1] # df1[2]
    /\ df1[3] # df1[1]
    /\ b_out[3].cleaned_input # b_out[1].cleaned_input

\* C14: what process_files hands to the save is exactly the batch's primary
\* rows, in one call with one batch identifier; no duplicate row is handed
\* over, the save is called at most once, and never without a tenant.
C14_PrimaryRowsHanded ==
    b_pc = "done" =>
        /\ Len(b_handed) <= 1
        /\ client_id = EmptyText => b_handed = <<>>
        /\ client_id # EmptyText =>
             /\ b_handed # <<>>
             /\ b_handed[1].rows = PrimaryRowsFrom(1)

\* C15: when the save answers failure or raises, process_files still returns
\* the enriched row of every input row, and the failure shows only as the
\* message of a progress call: with a progress_callback the call at 98 carries
\* it and the run goes on to its last call, without one no call is made.
C15_SaveFailureKeepsResult ==
    \A h \in Range(b_handed) :
        h.outcome \in {"failed", "raised"} =>
            /\ b_pc = "done"
            /\ Len(b_out) = Len(df1)
            /\ \A i \in DOMAIN df1 :
                 b_out[i].row = df1[i] /\ b_out[i].cleaned_input = Transformed(i).input
            /\ IF progress_callback
               THEN /\ \E k \in DOMAIN progress :
                         /\ progress[k].num = 98
                         /\ progress[k].message \in {"database save failed", "database error"}
                    /\ progress[Len(progress)].message = "completed"
               ELSE progress = <<>>

\* a batch of two rows whose save raised
C15_Witness ==
    /\ b_pc = "done"
    /\ Len(df1) >= 2
    /\ b_handed # <<>>
    /\ b_handed[1].outcome = "raised"
    /\ Len(b_out) = Len(df1)
    /\ progress_callback

\* no rows, rows of fewer than 3 columns, or a catalog of fewer than 4 columns
Malformed ==
    IF df1 = <<>> THEN TRUE
    ELSE IF Len(df1[1]) < 3 THEN TRUE
    ELSE IF df2 = <<>> THEN FALSE
    ELSE Len(df2[1]) < 4

\* nothing of a batch has been done
NoWorkDone ==
    /\ progress = <<>>
    /\ cleaned_inputs_status = <<>>
    /\ merged_synonyms = <<>>
    /\ merged_blacklist = <<>>
    /\ client_rules = EmptyRules
    /\ inputs = <<>>
    /\ results = <<>>
    /\ b_invoked = <<>>
    /\ b_handed = <<>>
    /\ b_out = <<>>

\* C16: a batch with no rows, with rows of fewer than 3 columns or with a
\* catalog of fewer than 4 columns is rejected before any work: no progress
\* call, no read of the rule store, no match, no save.
C16_RejectedBeforeWork ==
    /\ (b_pc # "idle" /\ Malformed) => (b_pc \in {"start", "rejected"} /\ NoWorkDone)
    /\ b_pc = "rejected" => NoWorkDone

\* a tenant's batch of well-formed rows rejected for its catalog of 3 columns
C16_Witness ==
    /\ b_pc = "rejected"
    /\ client_id # EmptyText
    /\ df1 # <<>>
    /\ df2 # <<>>
    /\ Len(df1[1]) >= 3
    /\ Len(df2[1]) = 3

\* the lower-cased keys of a synonym dict, and what the rewrite of the word k
\* under the dict gives
LowerKeySet(d) == {Lower(d[i][1]) : i \in DOMAIN d}
RewriteOf(k, d) == apply_synonyms(k, d).text

\* C17: with a tenant, the rules of the batch are the stored rules as read,
\* merged with the caller's: a word that is a synonym key of both (keys
\* compared without case) is rewritten to the caller's replacement, a key of
\* one side only keeps its replacement, and the blacklist is the union of both.
C17_OverrideWins ==
    (client_id # EmptyText /\ b_pc \in {"transform", "keys", "match", "done"}) =>
        /\ \A k \in LowerKeySet(dictionary.synonyms) :
             RewriteOf(k, merged_synonyms) = RewriteOf(k, dictionary.synonyms)
        /\ \A k \in LowerKeySet(client_rules.synonyms) \ LowerKeySet(dictionary.synonyms) :
             RewriteOf(k, merged_synonyms) = RewriteOf(k, client_rules.synonyms)
        /\ LowerKeySet(merged_synonyms) =
             LowerKeySet(client_rules.synonyms) \cup LowerKeySet(dictionary.synonyms)
        /\ Range(merged_blacklist) =
             Range(client_rules.blacklist) \cup Range(dictionary.blacklist)
        /\ Len(merged_blacklist) = Cardinality(Range(merged_blacklist))

\* C18: every primary row of a batch is rewritten, matched by the engine or
\* from its cache, and handed to the save when a tenant is given, whatever
\* its rewritten text is, "NN" included; only a row that repeats an earlier
\* duplicate key gets the sentinel.
C18_PrimaryRowsProcessed ==
    b_pc = "done" =>
        \A i \in DOMAIN df1 :
            /\ Primary(i) =>
                 /\ InCache(b_out[i].cleaned_input, cache)
                 /\ results[i] = AppliedResult(DictGet(cache, b_out[i].cleaned_input))
                 /\ client_id # EmptyText =>
                      \E h \in Range(b_handed) : b_out[i] \in Range(h.rows)
            /\ results[i] = DuplicateResult => ~Primary(i)

\* C19: clean_text is idempotent: cleaning a cleaned text changes nothing.
C19_CleanIdempotent ==
    /\ t_pc = "twice" => t_twice = t_once
    /\ t_pc \in {"once", "twice"} => clean_text(t_once) = t_once

\* a text with an accent, a capital or punctuation, cleaned twice
C19_Witness ==
    /\ t_pc = "twice"
    /\ t_once # EmptyText
    /\ t_once # t_text
    /\ Range(t_text) \cap {"e:acute", "!", "A"} # {}

\* the blacklist's phrases as the loop sees them, and those the text holds
Phrases == {Strip(t_blacklist[i]) : i \in DOMAIN t_blacklist} \ {EmptyText}
FoundPhrases == {p \in Phrases : Found(t_text, p)}

T_xy_ab_cd_xy == <<"x","y"," ","a","b"," ","c","d"," ","x","y">>
T_xy_xy == <<"x","y"," ","x","y">>

\* C20: remove_blacklist takes the phrases longest first: when the text holds
\* blacklisted phrases, the first one removed is a longest of them, so a long
\* phrase is removed whole although a shorter phrase lies inside it
\* (blacklist [cd, ab cd] on "xy ab cd xy" gives "xy xy" and the audit [ab cd]);
\* the audit holds each removed phrase once, in that order, and the returned
\* text has its whitespace collapsed.
C20_LongestPhraseFirst ==
    t_pc = "removed" =>
        /\ FoundPhrases # {} =>
             /\ t_removed.removed # <<>>
             /\ t_removed.removed[1] \in FoundPhrases
             /\ \A p \in FoundPhrases : Len(p) <= Len(t_removed.removed[1])
             /\ ~Found(t_removed.text, t_removed.removed[1])
        /\ \A i, j \in DOMAIN t_removed.removed :
             i < j => /\ Len(t_removed.removed[i]) >= Len(t_removed.removed[j])
                      /\ t_removed.removed[i] # t_removed.removed[j]
        /\ Range(t_removed.removed) \subseteq Phrases
        /\ t_removed.text = Join(Split(t_removed.text))
        /\ (t_text = T_xy_ab_cd_xy /\ Range(t_blacklist) = {T_cd, T_ab_cd}) =>
             (t_removed.text = T_xy_xy /\ t_removed.removed = <<T_ab_cd>>)

\* the short phrase listed before the long one that holds it
C20_Witness ==
    /\ t_pc = "removed"
    /\ t_text = T_xy_ab_cd_xy
    /\ t_blacklist = <<T_cd, T_ab_cd>>
    /\ t_removed.removed = <<T_ab_cd>>
    /\ t_removed.text = T_xy_xy

\* a step in which the read of the table failed inside a match
ReadFailedStep ==
    /\ c_last' # c_last
    /\ c_last'.called
    /\ ~c_last'.from_cache
    /\ ~c_last'.rebuilt

\* C21: when the rebuild of the index fails inside a match, the match runs
\* on the index cached before, stale or not, when there is one, and answers
\* the empty MatchResult when there is none; the cache and its timestamp are
\* left as they were, and the match answers a MatchResult.
C21_RebuildFailureFallsBack ==
    [][ReadFailedStep =>
          /\ catalog_cache' = catalog_cache
          /\ cache_timestamp' = cache_timestamp
          /\ IF catalog_cache.set
                THEN c_last'.index = catalog_cache.data
                ELSE c_last'.result = empty_match_result
          /\ DOMAIN c_last'.result = DOMAIN empty_match_result]_vars

\* a match that ran on a stale cached index because the read failed
C21_Witness ==
    /\ c_last.called
    /\ ~c_last.from_cache
    /\ ~c_last.rebuilt
    /\ c_last.index # <<>>
    /\ c_last.elapsed >= cache_ttl
    /\ c_last.result # empty_match_result

\* normalize(join(category, variety, color, grade)) of an index entry
NormalizedKey(e) == clean_text(Join(<<e.categoria, e.variedad, e.color, e.grado>>))

\* C22: every entry of an index used for a match has the search_key
\* normalize(join(category, variety, color, grade)) of its attributes, after
\* the entry was created and after an attribute of it was changed.
C22_SearchKeyNormalized ==
    c_last.called =>
        \A i \in DOMAIN c_last.index :
            c_last.index[i].search_key = NormalizedKey(c_last.index[i])

\* the catalog identifier of a row of the catalog handed to process_files:
\* its sixth column (categoria, variedad, color, grado, one more field,
\* catalog_id), none in a narrower catalog
CatalogIdOfRow(row) == IF Len(row) >= 6 THEN row[6] ELSE EmptyText

\* the entry a MatchResult is taken from: the first entry in index order whose
\* search_key is the returned best match
C23_Entry ==
    IF m_engine = "batch"
    THEN LET row == m_cat[FirstIdx(Choices(m_cat), MResultMatch)]
             entry == SubSeq(row, 1, Len(row) - 1)
         IN  [categoria |-> entry[1], variedad |-> entry[2], color |-> entry[3],
              grado |-> entry[4], catalog_id |-> CatalogIdOfRow(entry)]
    ELSE LET i == CHOOSE i \in DOMAIN m_cat :
                    /\ m_cat[i].search_key = MResultMatch
                    /\ \A j \in DOMAIN m_cat :
                          m_cat[j].search_key = MResultMatch => i <= j
         IN  [categoria |-> m_cat[i].categoria, variedad |-> m_cat[i].variedad,
              color |-> m_cat[i].color, grado |-> m_cat[i].grado,
              catalog_id |-> m_cat[i].catalog_id]

\* C23: the category, variety, color, grade and catalog_id of a MatchResult
\* are those of the first entry in index order whose search_key is the
\* returned best match, in both engines and for catalogs of 4 columns or more.
C23_AttributesOfMatchedEntry ==
    (m_pc = "done" /\ Strip(m_query) # EmptyText /\ MChoices # <<>>) =>
        /\ m_result.categoria = C23_Entry.categoria
        /\ m_result.variedad = C23_Entry.variedad
        /\ m_result.color = C23_Entry.color
        /\ m_result.grado = C23_Entry.grado
        /\ m_result.catalog_id = C23_Entry.catalog_id

\* the first of the choices that a scorer gave its highest score
FirstBest(scores) ==
    CHOOSE i \in DOMAIN scores :
        /\ \A j \in DOMAIN scores : scores[j] <= scores[i]
        /\ \A j \in DOMAIN scores : scores[j] = scores[i] => i <= j

\* the stages evaluated so far
C24_Stages == {"A"} \cup m_eval

C25_NoRuleAsked(p) ==
    /\ proc[p].pc # "idle"
    /\ \/ ~proc[p].update_flag
       \/ Strip(proc[p].row_data.action) = EmptyText
       \/ Strip(proc[p].row_data.word) = EmptyText

\* C25: a reprocess made without apply_rule_annotation, or for a row whose
\* action or word is absent or blank, makes no replace and leaves the rule
\* store as it is: no step of such a call changes the store or starts a
\* replace.
C25_NoAnnotationNoReplace ==
    [][\A p \in Procs :
          (C25_NoRuleAsked(p) /\ proc'[p] # proc[p]) =>
              /\ store' = store
              /\ proc'[p].pc \notin {"replace", "inserts"}
              /\ proc'[p].update_result = "none"
              /\ proc'[p].added = NoRule]_vars

\* a row with the action blacklist and a blank word, and a row with an
\* annotation reprocessed without apply_rule_annotation, both returned with
\* the store as it was
C25_Witness ==
    \E p \in Procs :
        /\ proc[p].returned
        /\ proc[p].success
        /\ proc[p].pc = "idle"
        /\ store = StoredRules
        /\ \/ /\ proc[p].update_flag
              /\ proc[p].row_data.action = T_blacklist
              /\ proc[p].row_data.word = T_blank
           \/ /\ ~proc[p].update_flag
              /\ proc[p].row_data.action = T_blacklist
              /\ proc[p].row_data.word = T_cd

\* the phase a call of the progress callback belongs to, by its message
PhaseOf(message) ==
    IF message \in {"Initializing", "unique records"} THEN 1
    ELSE IF message = "Applying text transformation" THEN 2
    ELSE IF message \in {"Preparing catalog", "Beginning fuzzy matching"} THEN 3
    ELSE IF message = "Matching records" THEN 4
    ELSE 5

\* C26: the percentages handed to the progress callback during a run that is
\* not rejected lie within 0..100 and never decrease, the calls come in the
\* order of the phases (initialization, rule resolution, search keys, one call
\* per row during the matching at 10 + 75 * (position - 1) / rows,
\* finalization), and the last call is at 100; the callback is only told:
\* without one nothing is emitted and the run returns its rows all the same.
C26_ProgressMonotone ==
    /\ ~progress_callback => progress = <<>>
    /\ b_pc = "done" => Len(b_out) = Len(df1)
    /\ progress_callback =>
         /\ \A i \in DOMAIN progress :
               /\ progress[i].den > 0
               /\ 0 <= progress[i].num
               /\ progress[i].num <= 100 * progress[i].den
         /\ \A i, j \in DOMAIN progress :
               i < j => /\ progress[i].num * progress[j].den
                            <= progress[j].num * progress[i].den
                        /\ PhaseOf(progress[i].message) <= PhaseOf(progress[j].message)
         /\ b_pc = "done" =>
               /\ progress[Len(progress)].num = 100 * progress[Len(progress)].den
               /\ {PhaseOf(progress[i].message) : i \in DOMAIN progress} = 1..5
               /\ \A k \in DOMAIN df1 :
                     \* after the calls at 1, 3, 5, 8 and 10 percent
                     LET call == progress[5 + k]
                     IN  /\ call.message = "Matching records"
                         /\ call.num * Len(df1)
                              = call.den * (10 * Len(df1) + 75 * (k - 1))
               /\ Cardinality({i \in DOMAIN progress :
                                  progress[i].message = "Matching records"}) = Len(df1)

\* a run of two rows or more for a tenant, with a callback, that has returned
C26_Witness ==
    /\ b_pc = "done"
    /\ progress_callback
    /\ Len(df1) >= 2
    /\ client_id # EmptyText
    /\ \E i \in DOMAIN progress : progress[i].num = 98
    /\ progress[Len(progress)].num = 100

\* C27: what get_client_synonyms_blacklist returns, its synonyms and its
\* blacklist together, is a RuleSet the table has held at one moment, also
\* when a replace for the tenant commits between its two SELECTs (stated for
\* the runs in which nothing has failed).
C27_ConsistentSnapshot ==
    faults = 0 =>
        \A p \in Procs :
            /\ proc[p].pc = "update_plan" => proc[p].current_rules \in held
            /\ proc[p].pc = "pipeline" => proc[p].rules \in held

\* the catalog_data _get_catalog_data would hand the reprocessor for the
\* entries of the batch's catalog, in the same order
C28_CatalogData ==
    [i \in DOMAIN m_cat |->
        LET entry == SubSeq(m_cat[i], 1, Len(m_cat[i]) - 1)
        IN  [search_key |-> m_cat[i][Len(m_cat[i])],
             categoria  |-> entry[1],
             variedad   |-> entry[2],
             color      |-> entry[3],
             grado      |-> entry[4],
             catalog_id |-> CatalogIdOfRow(entry)]]

\* the scores of the batch's call, by the reprocessor's choices: a scorer
\* gives a search key the same score in both engines
C28_Tabs ==
    LET keys == SearchKeys(C28_CatalogData)
        tab(st) == [j \in DOMAIN keys |->
                      IF m_scores[st] = <<>> THEN 0
                      ELSE m_scores[st][FirstIdx(Choices(m_cat), keys[j])]]
    IN  [A |-> tab("A"), B |-> tab("B"), C |-> tab("C")]

\* C28: the batch engine and the reprocessor engine are one matching engine:
\* for the same rewritten text and the same entries in the same order they
\* return the same best match, similarity, matched and missing words,
\* catalog_id and attributes.
C28_EnginesAgree ==
    (m_pc = "done" /\ m_engine = "batch") =>
        LET r == perform_fuzzy_matching(m_query, C28_CatalogData, C28_Tabs)
        IN  /\ m_result.match = r.best_match
            /\ m_result.similarity = r.similarity
            /\ m_result.matched = r.matched_words
            /\ m_result.missing = r.missing_words
            /\ m_result.catalog_id = r.catalog_id
            /\ m_result.categoria = r.categoria
            /\ m_result.variedad = r.variedad
            /\ m_result.color = r.color
            /\ m_result.grado = r.grado

\* C29: a reprocess that answers success = false has left the tenant's rule
\* store as it was: the replace of its row's annotation has not been
\* committed.
C29_FailureLeavesStore ==
    \A p \in Procs :
        (proc[p].returned /\ proc[p].pc = "idle" /\ ~proc[p].success) =>
            proc[p].update_result # "ok"

\* the i-th returned call reprocessed the row of the call before it, both with
\* the annotation applied: neither replace failed
C30_SameRowTwice(i) ==
    /\ i > 1
    /\ done_calls[i].row_data = done_calls[i - 1].row_data
    /\ done_calls[i].update_flag
    /\ done_calls[i - 1].update_flag
    /\ "write" \notin done_calls[i].failed
    /\ "write" \notin done_calls[i - 1].failed

\* C30: applying a rule annotation is idempotent on the rule store: when the
\* same annotated row is reprocessed twice in sequence, no other call writing,
\* the tenant's RuleSet after the second call is the RuleSet after the first,
\* with no blacklist phrase twice.
C30_AnnotationIdempotent ==
    \A i \in DOMAIN done_calls :
        (IF i > 1 THEN C30_SameRowTwice(i) ELSE FALSE) =>
            /\ done_calls[i].rules_after = done_calls[i - 1].rules_after
            /\ \A j, k \in DOMAIN done_calls[i].rules_after.blacklist :
                  j # k => done_calls[i].rules_after.blacklist[j]
                             # done_calls[i].rules_after.blacklist[k]

====
